---------------------------- MODULE Spec2Model ----------------------------
(***************************************************************************)
(* A model of open-rec's export compiler (src-tauri/src/export/mod.rs):    *)
(* the timeline segmenter, the audio/video filter-graph builders and       *)
(* build_ffmpeg_args, which turns a Project and ExportOptions into the     *)
(* argument vector of an ffmpeg invocation; and of the export_project      *)
(* command (src-tauri/src/lib.rs), which validates the inputs, compiles    *)
(* the arguments, spawns ffmpeg and registers the export job.              *)
(*                                                                         *)
(* Numbers.  Every f64 of the program (seconds, speed, zoom scale, volume, *)
(* normalised coordinates) is a fixed-point integer counting millionths:   *)
(* 5.0 s is 5000000, speed 3.0 is 3000000.  The program's thresholds keep  *)
(* their value in that unit (0.001 is 1000, 0.01 is 10000).  f64::EPSILON  *)
(* (2.2e-16) is smaller than one unit, so two distinct model numbers are   *)
(* never closer than f64::EPSILON.                                         *)
(*                                                                         *)
(* Strings.  Arguments, labels and filters are the strings the program     *)
(* builds with format!; the format specifiers {}, {:.3}, {:.5} and {:.6}   *)
(* are the operators Display, Fmt3, Fmt5 and Fmt6 below.                   *)
(*                                                                         *)
(* Option<T> is a sequence of length at most one: None is <<>> and Some(x) *)
(* is <<x>>.  A Vec is a sequence.                                         *)
(***************************************************************************)
EXTENDS Integers, Sequences, FiniteSets, TLC

VARIABLES
    project,            \* the Project snapshot handed to the compiler
    options,            \* the ExportOptions handed to the compiler
    target_os,          \* the build target (cfg!(target_os = "macos"))
    files,              \* the paths that exist on disk
    compiled,           \* Some(locals and result of the last build_ffmpeg_args call)
    previous,           \* Some(probe result and arguments of the call before it)
    speed_in,           \* the argument handed to atempo_chain
    tempo,              \* Some(factors and chain of the last atempo_chain call)
    timeline,           \* Some(result of the last build_timeline_pieces call)
    export_call,        \* the position and locals of the export_project call
    export_jobs,        \* the SharedExportJobs registry: the registered job ids
    events,             \* the events emitted to the front end, oldest first
    processes,          \* the ffmpeg process of each job id
    listeners,          \* the task of each job that receives its CommandEvents
    cancel_results,     \* what the cancel_export calls of each job id have returned
    list_call,          \* the position and locals of the list_active_export_jobs call
    pending_finalizations,  \* the SharedPendingFinalizations map
    pending_call,       \* the position and locals of the get_pending_finalization call
    sessions,           \* RecorderState.sessions: the session of each project id
    clock,              \* the monotonic clock read by Instant::now()
    recorder_call,      \* the last start/pause/resume/stop_recording call and its return
    stop_call,          \* the position and locals of the stop or retry command
    lock_poisoned       \* whether the SharedPendingFinalizations mutex is poisoned

vars == <<project, options, target_os, files, compiled, previous, speed_in, tempo, timeline, export_call, export_jobs, events, processes, listeners, cancel_results, list_call, pending_finalizations, pending_call, sessions, clock, recorder_call, stop_call, lock_poisoned>>

\* the export jobs beyond their registry, and the pending finalizations
job_vars == <<processes, listeners, cancel_results, list_call>>

pending_vars == <<pending_finalizations, pending_call>>

\* the recorder, and the commands that stop and finalize a recording
recorder_vars == <<sessions, clock, recorder_call>>

stop_vars == <<stop_call, lock_poisoned>>

\* what the export compiler and atempo_chain leave alone
command_vars == <<timeline, export_call, export_jobs, events, job_vars, pending_vars, recorder_vars, stop_vars>>

---------------------------------------------------------------------------
(* Fixed-point numbers and the format specifiers                           *)

None == <<>>

Some(x) == <<x>>

IsSome(o) == Len(o) > 0

Unwrap(o) == o[1]

\* n seconds (or n units) as a count of millionths
Micro(n) == n * 1000000

Abs(x) == IF x < 0 THEN 0 - x ELSE x

Max(a, b) == IF a >= b THEN a ELSE b

Min(a, b) == IF a <= b THEN a ELSE b

\* f64::clamp
Clamp(x, lo, hi) == IF x < lo THEN lo ELSE IF x > hi THEN hi ELSE x

RECURSIVE Pow(_, _)
Pow(b, e) == IF e = 0 THEN 1 ELSE b * Pow(b, e - 1)

\* the decimal digits of n >= 0, zero-padded on the left to `width` digits
RECURSIVE Pad(_, _)
Pad(n, width) ==
    IF width <= 1 THEN ToString(n)
    ELSE IF n < Pow(10, width - 1) THEN "0" \o Pad(n, width - 1)
    ELSE ToString(n)

\* num/den (den > 0, num >= 0) rounded to the nearest integer, ties to even:
\* the rounding of Rust's float formatting
RoundDiv(num, den) ==
    LET q == num \div den
        r == num % den
    IN  IF 2 * r < den THEN q
        ELSE IF 2 * r > den THEN q + 1
        ELSE IF q % 2 = 0 THEN q ELSE q + 1

\* format!("{:.d}", x): x in millionths, d decimals (d in 1..6)
FmtFixed(x, d) ==
    LET scale == Pow(10, d)
        n     == RoundDiv(Abs(x), Pow(10, 6 - d))
    IN  (IF x < 0 /\ n > 0 THEN "-" ELSE "")
            \o ToString(n \div scale) \o "." \o Pad(n % scale, d)

Fmt3(x) == FmtFixed(x, 3)

Fmt5(x) == FmtFixed(x, 5)

Fmt6(x) == FmtFixed(x, 6)

\* the fraction digits of f (0 < f < 10^6, six digits) without trailing zeros
RECURSIVE FracDigits(_, _)
FracDigits(f, width) ==
    IF f % 10 = 0 THEN FracDigits(f \div 10, width - 1) ELSE Pad(f, width)

\* format!("{}", x) of an f64: the shortest decimal that reads back as x
\* ("5" for 5.0, "0.001" for 0.001)
Display(x) ==
    LET a == Abs(x)
    IN  (IF x < 0 THEN "-" ELSE "")
            \o ToString(a \div 1000000)
            \o (IF a % 1000000 = 0 THEN "" ELSE "." \o FracDigits(a % 1000000, 6))

\* Vec<String>::join
RECURSIVE Join(_, _)
Join(parts, sep) ==
    IF Len(parts) = 0 THEN ""
    ELSE IF Len(parts) = 1 THEN parts[1]
    ELSE parts[1] \o sep \o Join(Tail(parts), sep)

\* the concatenation of a sequence of sequences
RECURSIVE Flatten(_)
Flatten(ss) == IF Len(ss) = 0 THEN <<>> ELSE Head(ss) \o Flatten(Tail(ss))

---------------------------------------------------------------------------
(* Program constants (export/mod.rs), in millionths                        *)

\* (speed - 1.0).abs() < 0.01 : the no-op band of a speed
SpeedNoopBand == 10000

\* piece.start > 0.001, (piece.end - duration).abs() > 0.001
EditedTolerance == 1000

\* (gain - 1.0).abs() < 0.01 : the no-op band of a volume
GainNoopBand == 10000

\* end_time - start_time <= 0.01 : an annotation too short to draw
AnnotationMinLength == 10000

\* atempo accepts factors in [0.5, 2.0]
AtempoMax == 2000000

AtempoMin == 500000

---------------------------------------------------------------------------
(* atempo_chain                                                            *)

\* while remaining > 2.0 { push "atempo=2.0"; remaining /= 2.0 }: the number
\* of iterations, for remaining = speed / 2^k
RECURSIVE HalvingSteps(_, _)
HalvingSteps(speed, k) ==
    IF speed > AtempoMax * Pow(2, k) THEN HalvingSteps(speed, k + 1) ELSE k

\* while remaining < 0.5 { push "atempo=0.5"; remaining /= 0.5 }: the number
\* of iterations, for remaining = speed * 2^k
RECURSIVE DoublingSteps(_, _)
DoublingSteps(speed, k) ==
    IF speed * Pow(2, k) < AtempoMin THEN DoublingSteps(speed, k + 1) ELSE k

\* whether atempo_chain returns None
AtempoIsNoop(speed) == speed <= 0 \/ Abs(speed - Micro(1)) < SpeedNoopBand

\* AtempoFactors with "remaining /= 2.0" and "remaining /= 0.5" left out of
\* the loops: the last factor is the speed itself
AtempoFactors_KeepsRemaining(speed) ==
    [i \in 1..HalvingSteps(speed, 0) |-> 200000]
        \o [i \in 1..(IF HalvingSteps(speed, 0) > 0 THEN 0 ELSE DoublingSteps(speed, 0)) |-> 50000]
        \o <<RoundDiv(speed, 10)>>

\* The factors atempo_chain emits, each in units of 1e-5 (the precision of
\* the last one, printed with {:.5}): 2.0 per halving step, 0.5 per doubling
\* step, then the remaining factor rounded to five decimals.
AtempoFactors(speed) ==
    LET h    == HalvingSteps(speed, 0)
        d    == IF h > 0 THEN 0 ELSE DoublingSteps(speed, 0)
        last == IF h > 0 THEN RoundDiv(speed, 10 * Pow(2, h))
                ELSE RoundDiv(speed * Pow(2, d), 10)
    IN  [i \in 1..h |-> 200000] \o [i \in 1..d |-> 50000] \o <<last>>

\* one emitted part: the step literals "atempo=2.0" and "atempo=0.5", and
\* format!("atempo={:.5}", remaining) for the last
AtempoPart(factors, i) ==
    IF i < Len(factors)
    THEN (IF factors[i] = 200000 THEN "atempo=2.0" ELSE "atempo=0.5")
    ELSE "atempo=" \o Fmt5(factors[i] * 10)

atempo_chain(speed) ==
    IF AtempoIsNoop(speed) THEN None
    ELSE LET f == AtempoFactors(speed)
         IN  Some(Join([i \in 1..Len(f) |-> AtempoPart(f, i)], ","))

---------------------------------------------------------------------------
(* The timeline segmenter                                                  *)

\* Vec::sort_by(|a, b| a.0.total_cmp(&b.0)): a stable sort of (start, end)
\* pairs by start
RECURSIVE InsertByStart(_, _)
InsertByStart(sorted, seg) ==
    IF Len(sorted) = 0 THEN <<seg>>
    ELSE IF sorted[Len(sorted)][1] <= seg[1] THEN Append(sorted, seg)
    ELSE Append(InsertByStart(SubSeq(sorted, 1, Len(sorted) - 1), seg),
                sorted[Len(sorted)])

RECURSIVE SortByStart(_)
SortByStart(segs) ==
    IF Len(segs) = 0 THEN <<>>
    ELSE InsertByStart(SortByStart(SubSeq(segs, 1, Len(segs) - 1)), segs[Len(segs)])

\* enabled_segments without the sort
enabled_segments_Unsorted(p) ==
    IF \A i \in 1..Len(p.edits.segments) : ~p.edits.segments[i].enabled
    THEN <<<<0, p.duration>>>>
    ELSE [i \in 1..Len(SelectSeq(p.edits.segments, LAMBDA s : s.enabled)) |->
             <<SelectSeq(p.edits.segments, LAMBDA s : s.enabled)[i].start_time,
               SelectSeq(p.edits.segments, LAMBDA s : s.enabled)[i].end_time>>]

enabled_segments(p) ==
    LET enabled  == SelectSeq(p.edits.segments, LAMBDA s : s.enabled)
        segments == [i \in 1..Len(enabled) |->
                        <<enabled[i].start_time, enabled[i].end_time>>]
    IN  SortByStart(IF Len(segments) = 0 THEN <<<<0, p.duration>>>> ELSE segments)

\* breakpoints.sort_by(total_cmp)
RECURSIVE InsertNum(_, _)
InsertNum(sorted, x) ==
    IF Len(sorted) = 0 THEN <<x>>
    ELSE IF sorted[Len(sorted)] <= x THEN Append(sorted, x)
    ELSE Append(InsertNum(SubSeq(sorted, 1, Len(sorted) - 1), x), sorted[Len(sorted)])

RECURSIVE SortNums(_)
SortNums(xs) ==
    IF Len(xs) = 0 THEN <<>>
    ELSE InsertNum(SortNums(SubSeq(xs, 1, Len(xs) - 1)), xs[Len(xs)])

\* breakpoints.dedup_by(|a, b| (*a - *b).abs() < f64::EPSILON): an element
\* closer than f64::EPSILON to the last one kept is dropped; in millionths
\* that is an element equal to it
RECURSIVE Dedup(_)
Dedup(xs) ==
    IF Len(xs) <= 1 THEN xs
    ELSE LET front == Dedup(SubSeq(xs, 1, Len(xs) - 1))
         IN  IF xs[Len(xs)] = front[Len(front)] THEN front
             ELSE Append(front, xs[Len(xs)])

\* EffectBreakpoints without the test that a breakpoint lies in the segment
EffectBreakpoints_Unclipped(effects, seg_start, seg_end) ==
    Flatten([i \in 1..Len(effects) |->
        <<effects[i].start_time, effects[i].end_time>>])

\* the start and end of each effect that lie strictly inside (seg_start, seg_end)
EffectBreakpoints(effects, seg_start, seg_end) ==
    Flatten([i \in 1..Len(effects) |->
        (IF effects[i].start_time > seg_start /\ effects[i].start_time < seg_end
         THEN <<effects[i].start_time>> ELSE <<>>)
        \o
        (IF effects[i].end_time > seg_start /\ effects[i].end_time < seg_end
         THEN <<effects[i].end_time>> ELSE <<>>)])

Breakpoints(p, seg_start, seg_end) ==
    Dedup(SortNums(<<seg_start, seg_end>>
                   \o EffectBreakpoints(p.edits.speed, seg_start, seg_end)
                   \o EffectBreakpoints(p.edits.zoom, seg_start, seg_end)))

\* Iterator::find: the index of the first effect whose [start, end) contains t,
\* 0 when there is none
RECURSIVE FindContaining(_, _, _)
FindContaining(effects, t, i) ==
    IF i > Len(effects) THEN 0
    ELSE IF t >= effects[i].start_time /\ t < effects[i].end_time THEN i
    ELSE FindContaining(effects, t, i + 1)

\* PieceSpeed taking the last effect that contains `start`, not the first
PieceSpeed_LastContaining(p, start) ==
    LET containing == {i \in 1..Len(p.edits.speed) :
                          /\ start >= p.edits.speed[i].start_time
                          /\ start < p.edits.speed[i].end_time}
    IN  IF containing = {} THEN Micro(1)
        ELSE p.edits.speed[CHOOSE i \in containing : \A j \in containing : j <= i].speed

PieceSpeed(p, start) ==
    LET i == FindContaining(p.edits.speed, start, 1)
    IN  IF i = 0 THEN Micro(1) ELSE p.edits.speed[i].speed

\* .find(..).and_then(|effect| if effect.scale > 1.0 { Some(ActiveZoom) } else { None })
PieceZoom(p, start) ==
    LET i == FindContaining(p.edits.zoom, start, 1)
    IN  IF i = 0 THEN None
        ELSE IF p.edits.zoom[i].scale > Micro(1)
             THEN Some([scale |-> p.edits.zoom[i].scale,
                        x |-> p.edits.zoom[i].x, y |-> p.edits.zoom[i].y])
             ELSE None

\* the pieces of one enabled segment: one per window of two breakpoints
SegmentPieces(p, seg) ==
    IF seg[2] <= seg[1] THEN <<>>
    ELSE LET bp == Breakpoints(p, seg[1], seg[2])
         IN  Flatten([i \in 1..(Len(bp) - 1) |->
                 IF bp[i + 1] <= bp[i] THEN <<>>
                 ELSE <<[start |-> bp[i], end |-> bp[i + 1],
                         speed |-> PieceSpeed(p, bp[i]),
                         zoom  |-> PieceZoom(p, bp[i])]>>])

\* build_timeline_pieces without the fallback piece
build_timeline_pieces_NoFallback(p) ==
    Flatten([i \in 1..Len(enabled_segments(p)) |-> SegmentPieces(p, enabled_segments(p)[i])])

build_timeline_pieces(p) ==
    LET segments == enabled_segments(p)
        pieces   == Flatten([i \in 1..Len(segments) |-> SegmentPieces(p, segments[i])])
    IN  IF Len(pieces) = 0
        THEN <<[start |-> 0, end |-> p.duration, speed |-> Micro(1), zoom |-> None]>>
        ELSE pieces

\* timeline_is_edited comparing the piece to [0, duration] exactly
timeline_is_edited_ExactRange(p, pieces) ==
    IF Len(pieces) # 1 THEN TRUE
    ELSE \/ pieces[1].start > 0
         \/ pieces[1].end # p.duration
         \/ Abs(pieces[1].speed - Micro(1)) > SpeedNoopBand
         \/ IsSome(pieces[1].zoom)

timeline_is_edited(p, pieces) ==
    IF Len(pieces) # 1 THEN TRUE
    ELSE \/ pieces[1].start > EditedTolerance
         \/ Abs(pieces[1].end - p.duration) > EditedTolerance
         \/ Abs(pieces[1].speed - Micro(1)) > SpeedNoopBand
         \/ IsSome(pieces[1].zoom)

---------------------------------------------------------------------------
(* ExportOptions: the presets                                              *)

\* CompressionPreset::crf
crf(compression) ==
    CASE compression = "minimal" -> 18
      [] compression = "social"  -> 23
      [] compression = "web"     -> 28
      [] compression = "potato"  -> 35

\* CompressionPreset::preset
preset(compression) ==
    CASE compression = "minimal" -> "slow"
      [] compression = "social"  -> "medium"
      [] compression = "web"     -> "fast"
      [] compression = "potato"  -> "veryfast"

\* CompressionPreset::audio_bitrate
audio_bitrate(compression) ==
    CASE compression = "minimal" -> 320
      [] compression = "social"  -> 192
      [] compression = "web"     -> 128
      [] compression = "potato"  -> 96

\* ResolutionPreset::height
height(resolution) ==
    CASE resolution = "720p"  -> 720
      [] resolution = "1080p" -> 1080
      [] resolution = "4k"    -> 2160

\* (base * multiplier).round() as u32, the multiplier in hundredths
target_video_bitrate_kbps(o) ==
    LET base == CASE o.resolution = "720p"  -> 5000
                  [] o.resolution = "1080p" -> 8000
                  [] o.resolution = "4k"    -> 24000
        multiplier == CASE o.compression = "minimal" -> 160
                        [] o.compression = "social"  -> 100
                        [] o.compression = "web"     -> 72
                        [] o.compression = "potato"  -> 50
    IN  RoundDiv(base * multiplier, 100)

---------------------------------------------------------------------------
(* Filter-graph fragments.  One element of filter_parts is a node: the     *)
(* labels it reads, the filter text, the labels it writes.  Its text in    *)
(* the -filter_complex argument is the three concatenated.                 *)

Node(ins, filter, outs) == [ins |-> ins, filter |-> filter, outs |-> outs]

NodeText(n) == Join(n.ins, "") \o n.filter \o Join(n.outs, "")

\* filter_parts.join(";")
GraphText(parts) == Join([i \in 1..Len(parts) |-> NodeText(parts[i])], ";")

\* AudioPieceNode labelling its piece without the prefix of its caller
AudioPieceNode_NoPrefix(input_label, piece, prefix, idx) ==
    Node(<<input_label>>,
         "atrim=start=" \o Fmt6(piece.start) \o ":end=" \o Fmt6(piece.end)
             \o ",asetpts=PTS-STARTPTS"
             \o (IF IsSome(atempo_chain(piece.speed))
                 THEN "," \o Unwrap(atempo_chain(piece.speed)) ELSE ""),
         <<"[apiece" \o ToString(idx) \o "]">>)

\* one piece of build_audio_timeline_filter's loop (idx counts from 0)
AudioPieceNode(input_label, piece, prefix, idx) ==
    LET chain == atempo_chain(piece.speed)
    IN  Node(<<input_label>>,
             "atrim=start=" \o Fmt6(piece.start) \o ":end=" \o Fmt6(piece.end)
                 \o ",asetpts=PTS-STARTPTS"
                 \o (IF IsSome(chain) THEN "," \o Unwrap(chain) ELSE ""),
             <<"[" \o prefix \o ToString(idx) \o "]">>)

\* build_audio_timeline_filter passing every single piece of unit speed through
build_audio_timeline_filter_AnyStart(input_label, pieces, prefix) ==
    IF /\ Len(pieces) = 1
       /\ Abs(pieces[1].speed - Micro(1)) < SpeedNoopBand
    THEN [filters |-> <<>>, label |-> input_label]
    ELSE LET filters == [i \in 1..Len(pieces) |->
                            AudioPieceNode(input_label, pieces[i], prefix, i - 1)]
             labels  == [i \in 1..Len(pieces) |-> filters[i].outs[1]]
             output_label == "[" \o prefix \o "out]"
         IN  IF Len(labels) = 1
             THEN [filters |-> filters, label |-> labels[1]]
             ELSE [filters |-> Append(filters,
                                  Node(labels,
                                       "concat=n=" \o ToString(Len(labels)) \o ":v=0:a=1",
                                       <<output_label>>)),
                   label |-> output_label]

\* returns (filters, output label)
build_audio_timeline_filter(input_label, pieces, prefix) ==
    IF /\ Len(pieces) = 1
       /\ pieces[1].start <= EditedTolerance
       /\ Abs(pieces[1].speed - Micro(1)) < SpeedNoopBand
    THEN [filters |-> <<>>, label |-> input_label]
    ELSE LET filters == [i \in 1..Len(pieces) |->
                            AudioPieceNode(input_label, pieces[i], prefix, i - 1)]
             labels  == [i \in 1..Len(pieces) |-> filters[i].outs[1]]
             output_label == "[" \o prefix \o "out]"
         IN  IF Len(labels) = 1
             THEN [filters |-> filters, label |-> labels[1]]
             ELSE [filters |-> Append(filters,
                                  Node(labels,
                                       "concat=n=" \o ToString(Len(labels)) \o ":v=0:a=1",
                                       <<output_label>>)),
                   label |-> output_label]

\* returns (filters, output label); offset_ms is an i64 of milliseconds
apply_audio_offset(input_label, offset_ms, prefix) ==
    LET output_label == "[" \o prefix \o "offset]"
    IN  IF offset_ms = 0 THEN [filters |-> <<>>, label |-> input_label]
        ELSE IF offset_ms > 0
        THEN [filters |-> <<Node(<<input_label>>,
                                 "adelay=" \o ToString(offset_ms) \o "|" \o ToString(offset_ms),
                                 <<output_label>>)>>,
              label |-> output_label]
        ELSE [filters |-> <<Node(<<input_label>>,
                                 "atrim=start=" \o Fmt6(Abs(offset_ms) * 1000)
                                     \o ",asetpts=PTS-STARTPTS",
                                 <<output_label>>)>>,
              label |-> output_label]

\* returns (filter_parts after the call, label)
apply_audio_gain(filter_parts, input_label, volume, output_label) ==
    LET gain == Clamp(volume, 0, Micro(2))
    IN  IF Abs(gain - Micro(1)) < GainNoopBand
        THEN [parts |-> filter_parts, label |-> input_label]
        ELSE [parts |-> Append(filter_parts,
                               Node(<<input_label>>, "volume=" \o Fmt3(gain),
                                    <<"[" \o output_label \o "]">>)),
              label |-> "[" \o output_label \o "]"]

\* the text append_zoom_piece_filter pushes onto a piece's filter
append_zoom_piece_filter(zoom, output_width, output_height) ==
    LET scale       == Max(zoom.scale, 1010000)
        crop_width  == "iw/" \o Fmt6(scale)
        crop_height == "ih/" \o Fmt6(scale)
        crop_x      == "(iw-" \o crop_width \o ")/2+" \o Fmt3(zoom.x)
        crop_y      == "(ih-" \o crop_height \o ")/2+" \o Fmt3(zoom.y)
    IN  ",crop=w=" \o crop_width \o ":h=" \o crop_height
            \o ":x='" \o crop_x \o "':y='" \o crop_y
            \o "',scale=" \o ToString(output_width) \o ":" \o ToString(output_height)

build_camera_overlay_coordinates(p) ==
    LET margin   == ToString(p.edits.camera_overlay.margin)
        position == p.edits.camera_overlay.position
    IN  CASE position = "top-left"     -> margin \o ":" \o margin
          [] position = "top-right"    -> "W-w-" \o margin \o ":" \o margin
          [] position = "bottom-left"  -> margin \o ":H-h-" \o margin
          [] position = "bottom-right" -> "W-w-" \o margin \o ":H-h-" \o margin
          [] position = "custom"       ->
                 "(W-w)*" \o Fmt6(Clamp(p.edits.camera_overlay.custom_x, 0, Micro(1)))
                     \o ":(H-h)*" \o Fmt6(Clamp(p.edits.camera_overlay.custom_y, 0, Micro(1)))

---------------------------------------------------------------------------
(* Annotations.  A String whose characters the program inspects (the text  *)
(* and the colour of an annotation) is a sequence of one-character strings. *)

IsWhitespace(c) == c \in {" ", "\t", "\n", "\r"}

\* str::trim
RECURSIVE TrimStart(_)
TrimStart(cs) ==
    IF Len(cs) > 0 /\ IsWhitespace(cs[1]) THEN TrimStart(Tail(cs)) ELSE cs

RECURSIVE TrimEnd(_)
TrimEnd(cs) ==
    IF Len(cs) > 0 /\ IsWhitespace(cs[Len(cs)])
    THEN TrimEnd(SubSeq(cs, 1, Len(cs) - 1)) ELSE cs

Trim(cs) == TrimEnd(TrimStart(cs))

\* The six replace calls of escape_drawtext_text, backslash first: a
\* character is rewritten once, and the backslashes the later calls add are
\* not doubled again.
EscapeChar(c) ==
    CASE c = "\\" -> "\\\\"
      [] c = ":"  -> "\\:"
      [] c = "'"  -> "\\'"
      [] c = ","  -> "\\,"
      [] c = "%"  -> "\\%"
      [] c = "\n" -> "\\n"
      [] OTHER    -> c

escape_drawtext_text(cs) == Join([i \in 1..Len(cs) |-> EscapeChar(cs[i])], "")

\* the values both annotation builders derive from one annotation
AnnotationGeometry(annotation, duration) ==
    [start_time |-> Max(annotation.start_time, 0),
     end_time   |-> Min(annotation.end_time, duration),
     x          |-> Clamp(annotation.x, 0, Micro(1)),
     y          |-> Clamp(annotation.y, 0, Micro(1)),
     width      |-> Clamp(annotation.width, 20000, Micro(1)),
     height     |-> Clamp(annotation.height, 20000, Micro(1)),
     opacity    |-> Clamp(annotation.opacity, 100000, Micro(1)),
     thickness  |-> Max(annotation.thickness, 1),
     color      |-> Join(SelectSeq(annotation.color, LAMBDA c : ~IsWhitespace(c)), ""),
     text       |-> IF IsSome(annotation.text) THEN Trim(Unwrap(annotation.text)) ELSE <<>>]

AnnotationSkipped(g) == g.end_time - g.start_time <= AnnotationMinLength

DrawboxText(g) ==
    "drawbox=x=iw*" \o Fmt6(g.x) \o ":y=ih*" \o Fmt6(g.y)
        \o ":w=iw*" \o Fmt6(g.width) \o ":h=ih*" \o Fmt6(g.height)
        \o ":color=" \o g.color \o "@" \o Fmt3(g.opacity)
        \o ":t=" \o ToString(g.thickness)
        \o ":enable='between(t," \o Fmt6(g.start_time) \o "," \o Fmt6(g.end_time) \o ")'"

\* pad and fontsize are 10 and 28 in the graph, 8 and 20 in the GIF chain
DrawtextText(g, pad, fontsize) ==
    "drawtext=text='" \o escape_drawtext_text(g.text)
        \o "':x=iw*" \o Fmt6(g.x) \o "+" \o ToString(pad)
        \o ":y=ih*" \o Fmt6(g.y) \o "+" \o ToString(pad)
        \o ":fontsize=" \o ToString(fontsize)
        \o ":fontcolor=white@" \o Fmt3(g.opacity)
        \o ":box=1:boxcolor=black@0.35"
        \o ":enable='between(t," \o Fmt6(g.start_time) \o "," \o Fmt6(g.end_time) \o ")'"

\* the loop of apply_video_annotations from annotation i (counting from 1);
\* returns (filter_parts, current_video_label)
RECURSIVE AnnotateFrom(_, _, _, _)
AnnotateFrom(filter_parts, current_video_label, p, i) ==
    IF i > Len(p.edits.annotations)
    THEN [parts |-> filter_parts, label |-> current_video_label]
    ELSE LET g          == AnnotationGeometry(p.edits.annotations[i], p.duration)
             next_label == "[vannot" \o ToString(i - 1) \o "]"
             text_label == "[vannottxt" \o ToString(i - 1) \o "]"
             boxed      == Append(filter_parts,
                                  Node(<<current_video_label>>, DrawboxText(g),
                                       <<next_label>>))
         IN  IF AnnotationSkipped(g)
             THEN AnnotateFrom(filter_parts, current_video_label, p, i + 1)
             ELSE IF Len(g.text) > 0
             THEN AnnotateFrom(Append(boxed,
                                      Node(<<next_label>>, DrawtextText(g, 10, 28),
                                           <<text_label>>)),
                               text_label, p, i + 1)
             ELSE AnnotateFrom(boxed, next_label, p, i + 1)

apply_video_annotations(filter_parts, current_video_label, p) ==
    AnnotateFrom(filter_parts, current_video_label, p, 1)

\* The chains build_annotation_drawbox_chain produces, one per annotation
\* that is not skipped, each without its leading comma
AnnotationChains(p) ==
    Flatten([i \in 1..Len(p.edits.annotations) |->
        LET g == AnnotationGeometry(p.edits.annotations[i], p.duration)
        IN  IF AnnotationSkipped(g) THEN <<>>
            ELSE <<DrawboxText(g)
                       \o (IF Len(g.text) > 0 THEN "," \o DrawtextText(g, 8, 20) ELSE "")>>])

\* every chain starts with a comma; the chains are joined with ""
build_annotation_drawbox_chain(chains) ==
    Join([i \in 1..Len(chains) |-> "," \o chains[i]], "")

\* annotation_chain.strip_prefix(',').unwrap_or(&annotation_chain): the
\* chain without the comma it starts with
AnnotationPrefix(chains) == Join(chains, ",")

---------------------------------------------------------------------------
(* build_ffmpeg_args                                                       *)

\* has_audio_stream that takes a failed probe for an audio stream
has_audio_stream_FailedProbeCounts(probe) == probe # "no"

\* has_audio_stream that takes only a probe that printed nothing for no audio
has_audio_stream_FailedProbeIsAudio(probe) == probe \in {"yes", "failed"}

\* has_audio_stream: true only when ffprobe ran, succeeded and printed a
\* stream index; a probe that could not run or failed gives false
has_audio_stream(probe) == probe = "yes"

\* label.starts_with('[') && label.ends_with(":a]") && label.len() >= 5, on
\* the labels the builders produce: the raw audio stream of an input
RawAudioLabels == {"[" \o ToString(i) \o ":a]" : i \in 0..9}

IsRawAudioLabel(label) == label \in RawAudioLabels

\* label.trim_start_matches('[').trim_end_matches(']') of a raw audio label
StreamOfLabel(label) ==
    LET i == CHOOSE j \in 0..9 : label = "[" \o ToString(j) \o ":a]"
    IN  ToString(i) \o ":a"

\* VideoPieceNode that leaves the speed out of setpts
VideoPieceNode_UnitSpeed(p, piece, idx) ==
    Node(<<"[0:v]">>,
         "trim=start=" \o Fmt6(piece.start) \o ":end=" \o Fmt6(piece.end)
             \o ",setpts=(PTS-STARTPTS)/" \o Fmt6(Micro(1))
             \o (IF IsSome(piece.zoom)
                 THEN append_zoom_piece_filter(Unwrap(piece.zoom),
                                               p.resolution.width, p.resolution.height)
                 ELSE ""),
         <<"[vpiece" \o ToString(idx) \o "]">>)

\* one piece of the video loop (idx counts from 0)
VideoPieceNode(p, piece, idx) ==
    Node(<<"[0:v]">>,
         "trim=start=" \o Fmt6(piece.start) \o ":end=" \o Fmt6(piece.end)
             \o ",setpts=(PTS-STARTPTS)/" \o Fmt6(piece.speed)
             \o (IF IsSome(piece.zoom)
                 THEN append_zoom_piece_filter(Unwrap(piece.zoom),
                                               p.resolution.width, p.resolution.height)
                 ELSE ""),
         <<"[vpiece" \o ToString(idx) \o "]">>)

\* BuildVideoPieces that concatenates a single piece too
BuildVideoPieces_AlwaysConcat(p, timeline_pieces, timeline_edited, use_input_seeking) ==
    IF use_input_seeking \/ ~timeline_edited
    THEN [parts |-> <<>>, label |-> "[0:v]"]
    ELSE [parts |-> Append([i \in 1..Len(timeline_pieces) |->
                               VideoPieceNode(p, timeline_pieces[i], i - 1)],
                           Node([i \in 1..Len(timeline_pieces) |->
                                    "[vpiece" \o ToString(i - 1) \o "]"],
                                "concat=n=" \o ToString(Len(timeline_pieces)) \o ":v=1:a=0",
                                <<"[vconcat]">>)),
          label |-> "[vconcat]"]

\* if !use_input_seeking { if timeline_edited { ... } }: (filter_parts, current_video_label)
BuildVideoPieces(p, timeline_pieces, timeline_edited, use_input_seeking) ==
    IF use_input_seeking \/ ~timeline_edited
    THEN [parts |-> <<>>, label |-> "[0:v]"]
    ELSE LET nodes == [i \in 1..Len(timeline_pieces) |->
                          VideoPieceNode(p, timeline_pieces[i], i - 1)]
             video_piece_labels == [i \in 1..Len(nodes) |-> nodes[i].outs[1]]
         IN  IF Len(video_piece_labels) = 1
             THEN [parts |-> nodes, label |-> video_piece_labels[1]]
             ELSE [parts |-> Append(nodes,
                                Node(video_piece_labels,
                                     "concat=n=" \o ToString(Len(video_piece_labels))
                                         \o ":v=1:a=0",
                                     <<"[vconcat]">>)),
                   label |-> "[vconcat]"]

\* if camera_path.is_some() { ... }: (filter_parts, current_video_label)
BuildCameraOverlay(p, filter_parts, current_video_label) ==
    IF ~IsSome(p.camera_video_path)
    THEN [parts |-> filter_parts, label |-> current_video_label]
    ELSE LET camera_offset == IF IsSome(p.camera_offset_ms)
                              THEN Unwrap(p.camera_offset_ms) ELSE 0
             camera_scale  == Max(p.edits.camera_overlay.scale, 100000)
             camera_scale_filter ==
                 "scale=iw*" \o Display(camera_scale) \o ":ih*" \o Display(camera_scale)
             camera_filter ==
                 IF camera_offset > 0
                 THEN "setpts=PTS+" \o Fmt6(camera_offset * 1000) \o "/TB,"
                          \o camera_scale_filter
                 ELSE IF camera_offset < 0
                 THEN "trim=start=" \o Fmt6(Abs(camera_offset) * 1000)
                          \o ",setpts=PTS-STARTPTS," \o camera_scale_filter
                 ELSE camera_scale_filter
         IN  [parts |-> filter_parts
                  \o <<Node(<<"[1:v]">>, camera_filter, <<"[cam]">>),
                       Node(<<current_video_label, "[cam]">>,
                            "overlay=" \o build_camera_overlay_coordinates(p),
                            <<"[vwithcam]">>)>>,
              label |-> "[vwithcam]"]

\* mic_index: Some(2) with a camera, Some(1) without, None without a microphone
MicIndex(p) ==
    IF IsSome(p.microphone_audio_path)
    THEN Some(IF IsSome(p.camera_video_path) THEN 2 ELSE 1)
    ELSE None

\* (filter_parts, Some(label)) of a builder that returns (filter_parts, label)
WithLabel(r) == [parts |-> r.parts, label |-> Some(r.label)]

\* the screen audio once its timeline filter is built: the filters are
\* appended, then the system volume is applied
ScreenAudioGain(p, filter_parts, screen_timeline) ==
    apply_audio_gain(filter_parts \o screen_timeline.filters, screen_timeline.label,
                     p.edits.audio_mix.system_volume, "ascreenvol")

\* if screen_has_audio { ... }: (filter_parts, screen_audio_label)
ScreenAudio(p, filter_parts, timeline_pieces, screen_has_audio) ==
    IF screen_has_audio
    THEN WithLabel(ScreenAudioGain(p, filter_parts,
             build_audio_timeline_filter("[0:a]", timeline_pieces, "ascreen")))
    ELSE [parts |-> filter_parts, label |-> None]

\* the microphone once offset and timeline filter are built: both are
\* appended, then the high-pass filter, then the microphone volume
MicrophoneGain(p, filter_parts, mic_offset, mic_timeline) ==
    apply_audio_gain(filter_parts \o mic_offset.filters \o mic_timeline.filters
                         \o <<Node(<<mic_timeline.label>>, "highpass=f=80",
                                   <<"[amicclean]">>)>>,
                     "[amicclean]", p.edits.audio_mix.microphone_volume, "amicvol")

MicrophoneTimeline(p, filter_parts, timeline_pieces, mic_offset) ==
    MicrophoneGain(p, filter_parts, mic_offset,
                   build_audio_timeline_filter(mic_offset.label, timeline_pieces,
                                               "amicpiece"))

\* if let Some(mic_index) = mic_index { ... }: (filter_parts, microphone_processed_label)
MicrophoneAudio(p, filter_parts, timeline_pieces) ==
    IF IsSome(MicIndex(p))
    THEN WithLabel(MicrophoneTimeline(p, filter_parts, timeline_pieces,
             apply_audio_offset("[" \o ToString(Unwrap(MicIndex(p))) \o ":a]",
                                IF IsSome(p.microphone_offset_ms)
                                THEN Unwrap(p.microphone_offset_ms) ELSE 0,
                                "amic")))
    ELSE [parts |-> filter_parts, label |-> None]

\* MixAudio mixing the screen audio as it is, not the ducked track
MixAudio_MixesUnducked(screen_audio_label, microphone) ==
    IF IsSome(screen_audio_label) /\ IsSome(microphone.label)
    THEN [parts |-> microphone.parts
              \o <<Node(<<Unwrap(screen_audio_label), Unwrap(microphone.label)>>,
                        "sidechaincompress=threshold=0.025:ratio=8:attack=20:release=300",
                        <<"[aducked]">>),
                   Node(<<Unwrap(screen_audio_label), Unwrap(microphone.label)>>,
                        "amix=inputs=2:duration=longest:dropout_transition=0",
                        <<"[aout]">>)>>,
          label |-> Some("[aout]")]
    ELSE IF IsSome(screen_audio_label)
    THEN [parts |-> microphone.parts, label |-> screen_audio_label]
    ELSE microphone

\* match (screen_audio_label, microphone_processed_label): both are ducked
\* and mixed into [aout]; one alone is the output; none gives None
MixAudio(screen_audio_label, microphone) ==
    IF IsSome(screen_audio_label) /\ IsSome(microphone.label)
    THEN [parts |-> microphone.parts
              \o <<Node(<<Unwrap(screen_audio_label), Unwrap(microphone.label)>>,
                        "sidechaincompress=threshold=0.025:ratio=8:attack=20:release=300",
                        <<"[aducked]">>),
                   Node(<<"[aducked]", Unwrap(microphone.label)>>,
                        "amix=inputs=2:duration=longest:dropout_transition=0",
                        <<"[aout]">>)>>,
          label |-> Some("[aout]")]
    ELSE IF IsSome(screen_audio_label)
    THEN [parts |-> microphone.parts, label |-> screen_audio_label]
    ELSE microphone

MicrophoneAndMix(p, timeline_pieces, screen) ==
    MixAudio(screen.label, MicrophoneAudio(p, screen.parts, timeline_pieces))

\* The audio part of the graph, the same code in the Mp4/Mov branch and in
\* the Wav/Mp3 branch: screen audio (timeline filter, gain), microphone
\* (offset, timeline filter, high-pass, gain), then ducking and mixing.
\* Returns (filter_parts, audio_output_label).
BuildAudioGraph(p, filter_parts, timeline_pieces, screen_has_audio) ==
    MicrophoneAndMix(p, timeline_pieces,
                     ScreenAudio(p, filter_parts, timeline_pieces, screen_has_audio))

\* the "// Video codec", "// Audio codec" and "// Frame rate" arguments
CodecArgs(o, os) ==
    <<"-c:v">>
    \o (IF o.format = "mov"
        THEN <<"prores_ks", "-profile:v", "3", "-pix_fmt", "yuv422p10le">>
        ELSE (IF os = "macos"
              THEN <<"h264_videotoolbox", "-b:v",
                     ToString(target_video_bitrate_kbps(o)) \o "k", "-allow_sw", "1">>
              ELSE <<"libx264", "-crf", ToString(crf(o.compression)),
                     "-preset", preset(o.compression)>>)
             \o <<"-pix_fmt", "yuv420p">>)
    \o <<"-c:a">>
    \o (IF o.format = "mov" THEN <<"pcm_s16le">>
        ELSE <<"aac", "-b:a", ToString(audio_bitrate(o.compression)) \o "k">>)
    \o <<"-r", ToString(o.frame_rate)>>

\* AudioMapTarget that names every label as it is
AudioMapTarget_Verbatim(audio_label) == audio_label

\* the label an audio -map names: the raw stream of input 0 is optional
AudioMapTarget(audio_label) ==
    IF audio_label = "[0:a]" THEN "0:a?"
    ELSE IF IsRawAudioLabel(audio_label) THEN StreamOfLabel(audio_label)
    ELSE audio_label

\* the audio map of the Mp4/Mov branch
AudioMapArgs(audio_output_label, filter_parts, screen_has_audio) ==
    IF IsSome(audio_output_label)
    THEN IF Len(filter_parts) > 0
         THEN <<"-map", AudioMapTarget(Unwrap(audio_output_label))>>
         ELSE IF IsRawAudioLabel(Unwrap(audio_output_label))
         THEN <<"-map", AudioMapTarget(Unwrap(audio_output_label))>>
         ELSE <<>>
    ELSE IF Len(filter_parts) > 0 THEN <<"-an">>
    ELSE IF screen_has_audio THEN <<"-map", "0:a?">>
    ELSE <<>>

\* the annotations drawn on the video the camera stage leaves
AnnotateVideo(p, camera) == apply_video_annotations(camera.parts, camera.label, p)

\* the video part of the graph after the pieces: camera overlay, annotations
CameraAndAnnotations(p, video) ==
    AnnotateVideo(p, BuildCameraOverlay(p, video.parts, video.label))

\* FinalScale scaling the screen video, not the label the chain has reached
FinalScale_FromScreen(o, current_video_label, audio) ==
    IF Len(audio.parts) = 0
    THEN [filter_parts |-> <<>>, final_video_label |-> None,
          audio_output_label |-> audio.label]
    ELSE [filter_parts |-> Append(audio.parts,
                                  Node(<<"[0:v]">>,
                                       "scale=-2:" \o ToString(height(o.resolution)),
                                       <<"[vout]">>)),
          final_video_label |-> Some("[vout]"),
          audio_output_label |-> audio.label]

\* if !filter_parts.is_empty() { scale to the output height into [vout] }
FinalScale(o, current_video_label, audio) ==
    IF Len(audio.parts) = 0
    THEN [filter_parts |-> <<>>, final_video_label |-> None,
          audio_output_label |-> audio.label]
    ELSE [filter_parts |-> Append(audio.parts,
                                  Node(<<current_video_label>>,
                                       "scale=-2:" \o ToString(height(o.resolution)),
                                       <<"[vout]">>)),
          final_video_label |-> Some("[vout]"),
          audio_output_label |-> audio.label]

AudioAndScale(p, o, timeline_pieces, screen_has_audio, annotated) ==
    FinalScale(o, annotated.label,
               BuildAudioGraph(p, annotated.parts, timeline_pieces, screen_has_audio))

\* codecs, then the graph or the plain scale, then the two maps
Mp4MovArgs(o, os, screen_has_audio, graph) ==
    [args |-> CodecArgs(o, os)
              \o (IF IsSome(graph.final_video_label)
                  THEN <<"-filter_complex", GraphText(graph.filter_parts),
                         "-map", Unwrap(graph.final_video_label)>>
                  ELSE <<"-vf", "scale=-2:" \o ToString(height(o.resolution)),
                         "-map", "0:v">>)
              \o AudioMapArgs(graph.audio_output_label, graph.filter_parts,
                              screen_has_audio),
     filter_parts |-> graph.filter_parts,
     final_video_label |-> graph.final_video_label,
     audio_output_label |-> graph.audio_output_label]

\* ExportFormat::Mp4 | ExportFormat::Mov: the arguments after the inputs,
\* with the graph and the two final labels
Mp4MovBranch(p, o, os, timeline_pieces, timeline_edited, use_input_seeking, screen_has_audio) ==
    Mp4MovArgs(o, os, screen_has_audio,
        AudioAndScale(p, o, timeline_pieces, screen_has_audio,
            CameraAndAnnotations(p,
                BuildVideoPieces(p, timeline_pieces, timeline_edited,
                                 use_input_seeking))))

\* GifTailNodes with the frame rate and the height of the options, uncapped
GifTailNodes_Uncapped(head_ins, head_filter, o) ==
    <<Node(head_ins,
           head_filter \o "fps=" \o ToString(o.frame_rate)
               \o ",scale=-1:" \o ToString(height(o.resolution))
               \o ":flags=lanczos,split",
           <<"[s0]", "[s1]">>),
      Node(<<"[s0]">>, "palettegen=stats_mode=diff", <<"[p]">>),
      Node(<<"[s1]", "[p]">>,
           "paletteuse=dither=bayer:bayer_scale=5:diff_mode=rectangle", <<>>)>>

\* the palette tail shared by the two GIF filters
GifTailNodes(head_ins, head_filter, o) ==
    <<Node(head_ins,
           head_filter \o "fps=" \o ToString(Min(o.frame_rate, 30))
               \o ",scale=-1:" \o ToString(Min(height(o.resolution), 720))
               \o ":flags=lanczos,split",
           <<"[s0]", "[s1]">>),
      Node(<<"[s0]">>, "palettegen=stats_mode=diff", <<"[p]">>),
      Node(<<"[s1]", "[p]">>,
           "paletteuse=dither=bayer:bayer_scale=5:diff_mode=rectangle", <<>>)>>

\* the filter of the GIF branch, from the annotation chains
GifFilterParts(p, o, chains) ==
    IF IsSome(p.camera_video_path)
    THEN <<Node(<<"[1:v]">>,
                "scale=iw*" \o Display(Max(p.edits.camera_overlay.scale, 100000))
                    \o ":ih*" \o Display(Max(p.edits.camera_overlay.scale, 100000)),
                <<"[cam]">>)>>
         \o GifTailNodes(<<"[0:v]", "[cam]">>,
                         "overlay=" \o build_camera_overlay_coordinates(p)
                             \o build_annotation_drawbox_chain(chains) \o ",", o)
    ELSE GifTailNodes(<<>>,
                      IF Len(chains) = 0 THEN ""
                      ELSE AnnotationPrefix(chains) \o ",", o)

GifArgs(p, filter_parts) ==
    [args |-> <<IF IsSome(p.camera_video_path) THEN "-filter_complex" ELSE "-vf",
                GraphText(filter_parts)>>,
     filter_parts |-> filter_parts,
     final_video_label |-> None,
     audio_output_label |-> None]

\* ExportFormat::Gif
GifBranch(p, o) == GifArgs(p, GifFilterParts(p, o, AnnotationChains(p)))

\* the codec and the map of the Wav/Mp3 branch
AudioOnlyArgs(o, audio) ==
    [args |-> <<"-vn">>
              \o (IF o.format = "wav" THEN <<"-c:a", "pcm_s16le">>
                  ELSE <<"-c:a", "libmp3lame", "-b:a",
                         ToString(audio_bitrate(o.compression)) \o "k">>)
              \o (IF ~IsSome(audio.label) THEN <<>>
                  ELSE IF Len(audio.parts) > 0
                  THEN <<"-filter_complex", GraphText(audio.parts),
                         "-map", AudioMapTarget(Unwrap(audio.label))>>
                  ELSE IF IsRawAudioLabel(Unwrap(audio.label))
                  THEN <<"-map", AudioMapTarget(Unwrap(audio.label))>>
                  ELSE <<>>),
     filter_parts |-> audio.parts,
     final_video_label |-> None,
     audio_output_label |-> audio.label]

\* ExportFormat::Wav | ExportFormat::Mp3
AudioOnlyBranch(p, o, timeline_pieces, screen_has_audio) ==
    AudioOnlyArgs(o, BuildAudioGraph(p, <<>>, timeline_pieces, screen_has_audio))

\* UseInputSeeking without the strict sub-range condition
UseInputSeeking_AnyRange(p, segments, timeline_edited) ==
    /\ ~IsSome(p.camera_video_path)
    /\ ~IsSome(p.microphone_audio_path)
    /\ Len(segments) = 1
    /\ ~timeline_edited
    /\ Len(p.edits.zoom) = 0

\* UseInputSeeking without the zoom condition
UseInputSeeking_IgnoringZoom(p, segments, timeline_edited) ==
    /\ ~IsSome(p.camera_video_path)
    /\ ~IsSome(p.microphone_audio_path)
    /\ Len(segments) = 1
    /\ (segments[1][1] > 0 \/ segments[1][2] < p.duration)
    /\ ~timeline_edited

\* UseInputSeeking without the not-edited condition
UseInputSeeking_IgnoringEdits(p, segments, timeline_edited) ==
    /\ ~IsSome(p.camera_video_path)
    /\ ~IsSome(p.microphone_audio_path)
    /\ Len(segments) = 1
    /\ (segments[1][1] > 0 \/ segments[1][2] < p.duration)
    /\ Len(p.edits.zoom) = 0

\* let use_input_seeking = ...: no camera, no microphone, one enabled
\* segment that does not span the whole source, no edit, no zoom effect
UseInputSeeking(p, segments, timeline_edited) ==
    /\ ~IsSome(p.camera_video_path)
    /\ ~IsSome(p.microphone_audio_path)
    /\ Len(segments) = 1
    /\ (segments[1][1] > 0 \/ segments[1][2] < p.duration)
    /\ ~timeline_edited
    /\ Len(p.edits.zoom) = 0

\* -ss and -to before the first input
SeekArgs(segments, use_input_seeking) ==
    IF use_input_seeking
    THEN <<"-ss", Display(segments[1][1]), "-to", Display(segments[1][2])>>
    ELSE <<>>

\* InputArgs with the microphone before the camera
InputArgs_MicrophoneFirst(p) ==
    <<"-i", p.screen_video_path>>
    \o (IF IsSome(p.microphone_audio_path)
        THEN <<"-i", Unwrap(p.microphone_audio_path)>> ELSE <<>>)
    \o (IF IsSome(p.camera_video_path) THEN <<"-i", Unwrap(p.camera_video_path)>>
        ELSE <<>>)

\* the screen recording, then the camera, then the microphone
InputArgs(p) ==
    <<"-i", p.screen_video_path>>
    \o (IF IsSome(p.camera_video_path) THEN <<"-i", Unwrap(p.camera_video_path)>>
        ELSE <<>>)
    \o (IF IsSome(p.microphone_audio_path)
        THEN <<"-i", Unwrap(p.microphone_audio_path)>> ELSE <<>>)

\* match options.format
FormatBranch(p, o, os, timeline_pieces, timeline_edited, use_input_seeking, screen_has_audio) ==
    IF o.format \in {"mp4", "mov"}
    THEN Mp4MovBranch(p, o, os, timeline_pieces, timeline_edited,
                      use_input_seeking, screen_has_audio)
    ELSE IF o.format = "gif" THEN GifBranch(p, o)
    ELSE AudioOnlyBranch(p, o, timeline_pieces, screen_has_audio)

\* the argument vector with the locals it was built from
Assemble(p, output_path, screen_has_audio, timeline_pieces, timeline_edited, segments, use_input_seeking, branch) ==
    [args |-> SeekArgs(segments, use_input_seeking) \o InputArgs(p) \o branch.args
              \o <<"-y", output_path>>,
     screen_has_audio   |-> screen_has_audio,
     timeline_pieces    |-> timeline_pieces,
     timeline_edited    |-> timeline_edited,
     enabled_segments   |-> segments,
     use_input_seeking  |-> use_input_seeking,
     filter_parts       |-> branch.filter_parts,
     final_video_label  |-> branch.final_video_label,
     audio_output_label |-> branch.audio_output_label]

BuildWithSeeking(p, o, output_path, os, screen_has_audio, timeline_pieces, timeline_edited, segments, use_input_seeking) ==
    Assemble(p, output_path, screen_has_audio, timeline_pieces, timeline_edited,
             segments, use_input_seeking,
             FormatBranch(p, o, os, timeline_pieces, timeline_edited,
                          use_input_seeking, screen_has_audio))

BuildWithTimeline(p, o, output_path, os, screen_has_audio, timeline_pieces, timeline_edited, segments) ==
    BuildWithSeeking(p, o, output_path, os, screen_has_audio, timeline_pieces,
                     timeline_edited, segments,
                     UseInputSeeking(p, segments, timeline_edited))

BuildWithPieces(p, o, output_path, os, screen_has_audio, timeline_pieces) ==
    BuildWithTimeline(p, o, output_path, os, screen_has_audio, timeline_pieces,
                      timeline_is_edited(p, timeline_pieces), enabled_segments(p))

\* The locals and the result of one build_ffmpeg_args call.  `probe` is
\* what ffprobe reports for the screen file during the call.  The call to
\* validate_export_inputs at the top discards its result (let _ = ...).
build_ffmpeg_args(p, o, output_path, os, probe) ==
    BuildWithPieces(p, o, output_path, os, has_audio_stream(probe),
                    build_timeline_pieces(p))

---------------------------------------------------------------------------
(* validate_export_inputs                                                  *)

\* validate_export_inputs looking at the segments before the files
validate_export_inputs_SegmentsFirst(p, o, existing, probe) ==
    IF \A i \in 1..Len(p.edits.segments) : ~p.edits.segments[i].enabled
    THEN "No enabled timeline segments to export"
    ELSE IF p.screen_video_path \notin existing
    THEN "Screen recording file does not exist"
    ELSE IF IsSome(p.camera_video_path) /\ Unwrap(p.camera_video_path) \notin existing
    THEN "Camera recording file does not exist"
    ELSE IF IsSome(p.microphone_audio_path)
            /\ Unwrap(p.microphone_audio_path) \notin existing
    THEN "Microphone recording file does not exist"
    ELSE IF /\ o.format \in {"wav", "mp3"}
            /\ ~has_audio_stream(probe)
            /\ ~(IsSome(p.microphone_audio_path)
                 /\ Unwrap(p.microphone_audio_path) \in existing)
    THEN "Audio export requires at least one audio source (system or microphone)"
    ELSE "ok"

\* Ok(()) is "ok"; an Err is its message (without the path it names)
validate_export_inputs(p, o, existing, probe) ==
    IF p.screen_video_path \notin existing
    THEN "Screen recording file does not exist"
    ELSE IF IsSome(p.camera_video_path) /\ Unwrap(p.camera_video_path) \notin existing
    THEN "Camera recording file does not exist"
    ELSE IF IsSome(p.microphone_audio_path)
            /\ Unwrap(p.microphone_audio_path) \notin existing
    THEN "Microphone recording file does not exist"
    ELSE IF \A i \in 1..Len(p.edits.segments) : ~p.edits.segments[i].enabled
    THEN "No enabled timeline segments to export"
    ELSE IF /\ o.format \in {"wav", "mp3"}
            /\ ~has_audio_stream(probe)
            /\ ~(IsSome(p.microphone_audio_path)
                 /\ Unwrap(p.microphone_audio_path) \in existing)
    THEN "Audio export requires at least one audio source (system or microphone)"
    ELSE "ok"

---------------------------------------------------------------------------
(* The inputs: projects, options, probe results                            *)

\* the longest list of segments of an input project
MaxSegments == 2

\* the most effects, annotations and media settings added to an input project
MaxEffects == 1

\* the source is 20 s long
Duration == Micro(20)

Segment(range, enabled) ==
    [start_time |-> range[1], end_time |-> range[2], enabled |-> enabled]

\* the whole source; 5 s to 15 s; the head; the tail; a range that starts
\* 0.5 ms in; a zero-length range
SegmentValues ==
    {Segment(r, TRUE) : r \in {<<0, Duration>>, <<Micro(5), Micro(15)>>,
                               <<0, Micro(5)>>, <<Micro(15), Duration>>,
                               <<500, Duration>>, <<Micro(5), Micro(5)>>}}
    \cup {Segment(r, FALSE) : r \in {<<0, Duration>>, <<Micro(15), Duration>>}}

SegmentLists == UNION {[1..n -> SegmentValues] : n \in 0..MaxSegments}

\* the segment lists that effects and media settings are added to
BaseSegmentLists ==
    {<<Segment(<<0, Duration>>, TRUE)>>,
     <<Segment(<<Micro(5), Micro(15)>>, TRUE)>>,
     <<Segment(<<500, Duration>>, TRUE)>>,
     <<Segment(<<0, Micro(5)>>, TRUE), Segment(<<Micro(15), Duration>>, TRUE)>>,
     <<Segment(<<0, Micro(15)>>, TRUE), Segment(<<Micro(15), Duration>>, FALSE)>>}

\* Project::new with the given segments in place of the single full one
NewProject(segments) ==
    [screen_video_path     |-> "screen.mp4",
     camera_video_path     |-> None,
     microphone_audio_path |-> None,
     camera_offset_ms      |-> None,
     microphone_offset_ms  |-> None,
     duration              |-> Duration,
     resolution            |-> [width |-> 1920, height |-> 1080],
     edits |-> [segments    |-> segments,
                zoom        |-> <<>>,
                speed       |-> <<>>,
                annotations |-> <<>>,
                camera_overlay |-> [position |-> "bottom-right", margin |-> 20,
                                    scale |-> 250000,
                                    custom_x |-> Micro(1), custom_y |-> Micro(1)],
                audio_mix |-> [system_volume |-> Micro(1),
                               microphone_volume |-> Micro(1)]]]

SpeedEffects ==
    {[start_time |-> r[1], end_time |-> r[2], speed |-> s] :
        r \in {<<Micro(5), Micro(15)>>, <<Micro(2), Micro(8)>>}, s \in {Micro(3), 500000}}
    \cup {[start_time |-> 0, end_time |-> Duration, speed |-> 1005000]}

ZoomEffects ==
    {[start_time |-> Micro(5), end_time |-> Micro(15), scale |-> 1500000,
      x |-> Micro(40), y |-> 0 - Micro(20)],
     [start_time |-> 0, end_time |-> Duration, scale |-> 1500000,
      x |-> 0, y |-> 0],
     [start_time |-> 0, end_time |-> Duration, scale |-> Micro(1),
      x |-> 0, y |-> 0]}

\* a box with and without text, and a box too short to draw
AnnotationValues ==
    {[start_time |-> Micro(1), end_time |-> e, x |-> 100000, y |-> 200000,
      width |-> 300000, height |-> 250000, color |-> <<"r", "e", "d">>,
      opacity |-> 800000, thickness |-> 3, text |-> t] :
        e \in {Micro(4)}, t \in {None, Some(<<" ", "a", ":", "b">>)}}
    \cup {[start_time |-> Micro(1), end_time |-> 1005000, x |-> 100000, y |-> 200000,
            width |-> 300000, height |-> 250000, color |-> <<"r", "e", "d">>,
            opacity |-> 800000, thickness |-> 3, text |-> None]}

\* one change the editor makes to a project
Changes ==
    {[kind |-> "speed", value |-> e] : e \in SpeedEffects}
    \cup {[kind |-> "zoom", value |-> e] : e \in ZoomEffects}
    \cup {[kind |-> "annotation", value |-> a] : a \in AnnotationValues}
    \cup {[kind |-> "camera", value |-> off] : off \in {None, Some(250), Some(0 - 250)}}
    \cup {[kind |-> "microphone", value |-> off] : off \in {Some(100), Some(0 - 100)}}
    \cup {[kind |-> "system_volume", value |-> 500000]}
    \cup {[kind |-> "microphone_volume", value |-> 1500000]}
    \cup {[kind |-> "camera_position", value |-> "custom"]}

Change(p, c) ==
    CASE c.kind = "speed" ->
             [p EXCEPT !.edits.speed = Append(@, c.value)]
      [] c.kind = "zoom" ->
             [p EXCEPT !.edits.zoom = Append(@, c.value)]
      [] c.kind = "annotation" ->
             [p EXCEPT !.edits.annotations = Append(@, c.value)]
      [] c.kind = "camera" ->
             [p EXCEPT !.camera_video_path = Some("camera.mp4"),
                       !.camera_offset_ms = c.value]
      [] c.kind = "microphone" ->
             [p EXCEPT !.microphone_audio_path = Some("mic.wav"),
                       !.microphone_offset_ms = c.value]
      [] c.kind = "system_volume" ->
             [p EXCEPT !.edits.audio_mix.system_volume = c.value]
      [] c.kind = "microphone_volume" ->
             [p EXCEPT !.edits.audio_mix.microphone_volume = c.value]
      [] c.kind = "camera_position" ->
             [p EXCEPT !.edits.camera_overlay.position = c.value,
                       !.edits.camera_overlay.custom_x = 250000,
                       !.edits.camera_overlay.custom_y = 1500000]

\* the projects reached from `projects` by at most n changes
RECURSIVE Changed(_, _)
Changed(projects, n) ==
    IF n = 0 THEN projects
    ELSE Changed(projects \cup {Change(p, c) : p \in projects, c \in Changes}, n - 1)

\* the projects recorded with both a camera and a microphone
CameraAndMicrophoneProjects ==
    {Change(Change(NewProject(s), [kind |-> "camera", value |-> None]),
            [kind |-> "microphone", value |-> Some(100)]) : s \in BaseSegmentLists}

\* a microphone recording and both volumes of the audio mix changed
MixedVolumeProjects ==
    {Change(Change(Change(NewProject(s), [kind |-> "microphone", value |-> Some(100)]),
                   [kind |-> "system_volume", value |-> 500000]),
            [kind |-> "microphone_volume", value |-> 1500000]) : s \in BaseSegmentLists}

ProjectInputs ==
    {NewProject(s) : s \in SegmentLists}
    \cup Changed({NewProject(s) : s \in BaseSegmentLists}, MaxEffects)
    \cup CameraAndMicrophoneProjects
    \cup MixedVolumeProjects

\* (options, build target)
OptionInputs ==
    {<<[format |-> "mp4", frame_rate |-> 30, compression |-> "social",
        resolution |-> "1080p"], "linux">>,
     <<[format |-> "mp4", frame_rate |-> 60, compression |-> "web",
        resolution |-> "720p"], "macos">>,
     <<[format |-> "mov", frame_rate |-> 30, compression |-> "minimal",
        resolution |-> "4k"], "macos">>,
     <<[format |-> "gif", frame_rate |-> 60, compression |-> "potato",
        resolution |-> "1080p"], "linux">>,
     <<[format |-> "gif", frame_rate |-> 24, compression |-> "social",
        resolution |-> "720p"], "linux">>,
     <<[format |-> "wav", frame_rate |-> 30, compression |-> "social",
        resolution |-> "1080p"], "linux">>,
     <<[format |-> "mp3", frame_rate |-> 30, compression |-> "web",
        resolution |-> "720p"], "linux">>}

ProbeResults == {"yes", "no", "failed"}

\* the extension get_export_output_path picks for the format
OutputPath(o) == "Downloads/Recording_20260101_120000." \o o.format

\* an export_project call that has not started: no validation result, no
\* argument vector, no ffmpeg child, no return value
IdleCall ==
    [pc |-> "idle", validation |-> None, probe |-> None, args |-> None,
     spawned |-> FALSE, result |-> None]

\* the export jobs that are followed
MaxJobs == 2

\* the n-th job id (Uuid::new_v4().to_string()); the ids sort as their numbers
JobName(n) == "job-" \o ToString(n)

Jobs == {JobName(n) : n \in 1..MaxJobs}

\* a list_active_export_jobs call that has not started, holding what the
\* last call returned
IdleList(result) ==
    [pc |-> "idle", job_entries |-> <<>>, active_job_ids |-> <<>>,
     stale_job_ids |-> <<>>, result |-> result]

\* no export was started, no command was called
NoJobs ==
    /\ processes = [j \in Jobs |-> "unspawned"]
    /\ listeners = [j \in Jobs |-> "none"]
    /\ cancel_results = [j \in Jobs |-> {}]
    /\ list_call = IdleList(None)

\* a get_pending_finalization or has_pending_finalization call that is not
\* on its way, holding what the last call worked on and returned: result is
\* the Result of get_pending_finalization, has is Some(is_some()) of its
\* value when has_pending_finalization was the caller
IdlePendingCall(op, project_id, stop_result, result, has) ==
    [pc |-> "idle", op |-> op, project_id |-> project_id,
     stop_result |-> stop_result, result |-> result, has |-> has]

\* HashMap::new() and no call yet
NoPending ==
    /\ pending_finalizations = <<>>
    /\ pending_call = IdlePendingCall("none", "", None, None, None)

\* a recorder call record: the function called, its argument, the session
\* it found (None without one) and what it returned
RecorderCall(op, project_id, before, result) ==
    [op |-> op, project_id |-> project_id, before |-> before, result |-> result]

\* a stop_screen_recording or retry_recording_finalization call that has
\* not started: its position, its argument as handed in and after
\* normalisation, the
\* StopRecordingResult it works on, how the capture stop and the
\* finalization went, where its events start in the event log, its return
\* value, the number of calls so far, and the project ids whose last
\* finalization failed or timed out
IdleStopCall ==
    [pc |-> "idle", command |-> "none", argument |-> "", project_id |-> "",
     stop_result |-> None,
     capture |-> "none", finalization |-> "none", first_event |-> 1,
     result |-> None, calls |-> 0, unfinalized |-> {}]

\* RecorderState::new: no session, no command was called
NoRecorder ==
    /\ sessions = <<>>
    /\ clock = 0
    /\ recorder_call = RecorderCall("none", "", None, None)
    /\ stop_call = IdleStopCall
    /\ lock_poisoned = FALSE

---------------------------------------------------------------------------
(* The state machine of the export compiler                                *)

Init ==
    /\ project \in ProjectInputs
    /\ \E oi \in OptionInputs : options = oi[1] /\ target_os = oi[2]
    /\ files = {"screen.mp4", "camera.mp4", "mic.wav"}
    /\ compiled = None
    /\ previous = None
    /\ speed_in = Micro(1)
    /\ tempo = None
    /\ timeline = None
    /\ export_call = IdleCall
    /\ export_jobs = {}
    /\ events = <<>>
    /\ NoJobs
    /\ NoPending
    /\ NoRecorder

\* One call of build_ffmpeg_args on the current project and options; `probe`
\* is what ffprobe reports for the screen file while the call runs.  The
\* state keeps the last two calls, so a third call only reaches states the
\* second call reaches already: two consecutive calls are followed.
BuildFfmpegArgs(probe) ==
    /\ ~IsSome(previous)
    /\ compiled' = Some(
           [probe |-> probe,
            validation |-> validate_export_inputs(project, options, files, probe)]
           @@ build_ffmpeg_args(project, options, OutputPath(options), target_os, probe))
    /\ previous' = IF IsSome(compiled)
                   THEN Some([probe |-> Unwrap(compiled).probe,
                              args  |-> Unwrap(compiled).args])
                   ELSE None
    /\ UNCHANGED <<project, options, target_os, files, speed_in, tempo>>
    /\ UNCHANGED command_vars

Next == \E probe \in ProbeResults : BuildFfmpegArgs(probe)

Spec == Init /\ [][Next]_vars

---------------------------------------------------------------------------
(* The state machine of atempo_chain alone                                 *)

\* speeds run from 0.00015 to MaxSpeedSteps halves (and 0.00015 more)
MaxSpeedSteps == 67

SpeedInputs ==
    {k * (Micro(1) \div 2) + d : k \in 0..MaxSpeedSteps, d \in {0, 150, 5000}} \ {0}

InitTempo ==
    /\ project = NewProject(<<Segment(<<0, Duration>>, TRUE)>>)
    /\ \E oi \in OptionInputs :
           options = oi[1] /\ target_os = oi[2] /\ oi[1].format = "wav"
    /\ files = {"screen.mp4"}
    /\ compiled = None
    /\ previous = None
    /\ speed_in \in SpeedInputs
    /\ tempo = None
    /\ timeline = None
    /\ export_call = IdleCall
    /\ export_jobs = {}
    /\ events = <<>>
    /\ NoJobs
    /\ NoPending
    /\ NoRecorder

\* One call of atempo_chain on speed_in: the chain it returns and the
\* factors the chain holds
AtempoChain ==
    /\ tempo' = Some([chain   |-> atempo_chain(speed_in),
                      factors |-> IF AtempoIsNoop(speed_in) THEN <<>>
                                  ELSE AtempoFactors(speed_in)])
    /\ UNCHANGED <<project, options, target_os, files, compiled, previous, speed_in>>
    /\ UNCHANGED command_vars

NextTempo == AtempoChain

SpecTempo == InitTempo /\ [][NextTempo]_vars

---------------------------------------------------------------------------
(* The state machine of the timeline segmenter alone                       *)

\* the longest list of speed effects, and of zoom effects, of an input project
MaxTimelineEffects == 2

\* the segment lists of BaseSegmentLists, and: a segment that ends 0.5 ms
\* early; one that starts 1.5 ms in; a zero-length segment, alone and before
\* the tail; a disabled segment alone; no segment at all
TimelineSegmentLists ==
    BaseSegmentLists
    \cup {<<Segment(<<0, Duration - 500>>, TRUE)>>,
          <<Segment(<<1500, Duration>>, TRUE)>>,
          <<Segment(<<Micro(5), Micro(5)>>, TRUE)>>,
          <<Segment(<<Micro(5), Micro(5)>>, TRUE), Segment(<<Micro(15), Duration>>, TRUE)>>,
          <<Segment(<<0, Duration>>, FALSE)>>,
          <<>>}

TimelineProjects ==
    {[NewProject(s) EXCEPT !.edits.speed = sp, !.edits.zoom = zm] :
        s  \in TimelineSegmentLists,
        sp \in UNION {[1..n -> SpeedEffects] : n \in 0..MaxTimelineEffects},
        zm \in UNION {[1..n -> ZoomEffects] : n \in 0..MaxTimelineEffects}}

InitTimeline ==
    /\ project \in TimelineProjects
    /\ \E oi \in OptionInputs :
           options = oi[1] /\ target_os = oi[2] /\ oi[1].format = "mp4"
                                               /\ oi[2] = "linux"
    /\ files = {"screen.mp4"}
    /\ compiled = None
    /\ previous = None
    /\ speed_in = Micro(1)
    /\ tempo = None
    /\ timeline = None
    /\ export_call = IdleCall
    /\ export_jobs = {}
    /\ events = <<>>
    /\ NoJobs
    /\ NoPending
    /\ NoRecorder

\* The segmenter calls that open build_ffmpeg_args: build_timeline_pieces,
\* timeline_is_edited on its result, and enabled_segments; then the audio
\* timeline of the screen recording built from the pieces
BuildTimelinePieces ==
    /\ timeline' = Some([pieces   |-> build_timeline_pieces(project),
                         edited   |-> timeline_is_edited(project,
                                                         build_timeline_pieces(project)),
                         segments |-> enabled_segments(project),
                         audio    |-> build_audio_timeline_filter(
                                          "[0:a]", build_timeline_pieces(project),
                                          "ascreen")])
    /\ UNCHANGED <<project, options, target_os, files, compiled, previous, speed_in, tempo>>
    /\ UNCHANGED <<export_call, export_jobs, events>>
    /\ UNCHANGED <<job_vars, pending_vars, recorder_vars, stop_vars>>

NextTimeline == BuildTimelinePieces

SpecTimeline == InitTimeline /\ [][NextTimeline]_vars

---------------------------------------------------------------------------
(* The state machine of the export_project command (lib.rs)                *)

\* Err(AppError) with its message
Err(message) == [ok |-> FALSE, message |-> message]

\* Ok(ExportStartResult)
Ok(job_id, output_path) == [ok |-> TRUE, job_id |-> job_id, output_path |-> output_path]

\* the id Uuid::new_v4 gives the job of the call
JobId == "job-1"

\* a whole recording, a trimmed one, one whose only segment is disabled,
\* one with a disabled tail, and one with no segment
ExportSegmentLists ==
    {<<Segment(<<0, Duration>>, TRUE)>>,
     <<Segment(<<Micro(5), Micro(15)>>, TRUE)>>,
     <<Segment(<<0, Duration>>, FALSE)>>,
     <<Segment(<<0, Micro(15)>>, FALSE), Segment(<<Micro(15), Duration>>, FALSE)>>,
     <<Segment(<<0, Micro(15)>>, TRUE), Segment(<<Micro(15), Duration>>, FALSE)>>,
     <<>>}

\* each with and without a camera, with and without a microphone
ExportProjects ==
    {[NewProject(s) EXCEPT !.camera_video_path = cam, !.microphone_audio_path = mic] :
        s \in ExportSegmentLists,
        cam \in {None, Some("camera.mp4")},
        mic \in {None, Some("mic.wav")}}

\* what normalize_project_id_input and load_project make of the project id
LoadResults == {"loaded", "blank id", "not found"}

InitExport ==
    /\ project \in ExportProjects
    /\ \E oi \in OptionInputs : options = oi[1] /\ target_os = oi[2]
    /\ files \in SUBSET {"screen.mp4", "camera.mp4", "mic.wav"}
    /\ compiled = None
    /\ previous = None
    /\ speed_in = Micro(1)
    /\ tempo = None
    /\ timeline = None
    /\ export_call = IdleCall
    /\ export_jobs = {}
    /\ events = <<>>
    /\ NoJobs
    /\ NoPending
    /\ NoRecorder

\* the call returns `result`
Returned(call, result) == [call EXCEPT !.pc = "returned", !.result = Some(result)]

\* normalize_project_id_input(..)?, recordings_dir_from_managed_state(..)?
\* and load_project(..).await?
ExportLoadProject(load) ==
    /\ export_call.pc = "idle"
    /\ export_call' =
           IF load = "blank id"
           THEN Returned(export_call, Err("Missing project id for export project"))
           ELSE IF load = "not found"
           THEN Returned(export_call, Err("Project not found"))
           ELSE [export_call EXCEPT !.pc = "validate"]
    /\ UNCHANGED <<project, options, target_os, files, compiled, previous, speed_in, tempo>>
    /\ UNCHANGED <<timeline, export_jobs, events>>
    /\ UNCHANGED <<job_vars, pending_vars, recorder_vars, stop_vars>>

\* AfterValidation going on whatever validate_export_inputs returned
AfterValidation_Ignored(call, validation, probe) ==
    [call EXCEPT !.pc = "build", !.validation = Some(validation), !.probe = Some(probe)]

\* validate_export_inputs(&project, &options)?: an Err returns from the call
AfterValidation(call, validation, probe) ==
    IF validation = "ok"
    THEN [call EXCEPT !.pc = "build", !.validation = Some(validation),
                      !.probe = Some(probe)]
    ELSE Returned([call EXCEPT !.validation = Some(validation), !.probe = Some(probe)],
                  Err(validation))

\* `probe` is what ffprobe reports for the screen file during the validation
ExportValidate(probe) ==
    /\ export_call.pc = "validate"
    /\ export_call' = AfterValidation(export_call,
                           validate_export_inputs(project, options, files, probe), probe)
    /\ UNCHANGED <<project, options, target_os, files, compiled, previous, speed_in, tempo>>
    /\ UNCHANGED <<timeline, export_jobs, events>>
    /\ UNCHANGED <<job_vars, pending_vars, recorder_vars, stop_vars>>

\* get_export_output_path and build_ffmpeg_args; `probe` is what ffprobe
\* reports for the screen file during build_ffmpeg_args
ExportBuildArgs(probe) ==
    /\ export_call.pc = "build"
    /\ export_call' =
           [export_call EXCEPT
               !.pc = "spawn",
               !.args = Some(build_ffmpeg_args(project, options, OutputPath(options),
                                               target_os, probe).args)]
    /\ UNCHANGED <<project, options, target_os, files, compiled, previous, speed_in, tempo>>
    /\ UNCHANGED <<timeline, export_jobs, events>>
    /\ UNCHANGED <<job_vars, pending_vars, recorder_vars, stop_vars>>

\* ffmpeg_command.args(&args).spawn(): the child runs, or the spawn fails
ExportSpawn(started) ==
    /\ export_call.pc = "spawn"
    /\ export_call' =
           IF started
           THEN [export_call EXCEPT !.pc = "register", !.spawned = TRUE]
           ELSE Returned(export_call, Err("Failed to spawn ffmpeg"))
    /\ UNCHANGED <<project, options, target_os, files, compiled, previous, speed_in, tempo>>
    /\ UNCHANGED <<timeline, export_jobs, events>>
    /\ UNCHANGED <<job_vars, pending_vars, recorder_vars, stop_vars>>

\* export_jobs.lock()?.insert(job_id, job_pid); a poisoned lock returns
ExportRegister(locked) ==
    /\ export_call.pc = "register"
    /\ export_call' =
           IF locked THEN [export_call EXCEPT !.pc = "emit"]
           ELSE Returned(export_call, Err("Failed to lock export jobs state"))
    /\ export_jobs' = IF locked THEN export_jobs \cup {JobId} ELSE export_jobs
    /\ UNCHANGED <<project, options, target_os, files, compiled, previous, speed_in, tempo>>
    /\ UNCHANGED <<timeline, events>>
    /\ UNCHANGED <<job_vars, pending_vars, recorder_vars, stop_vars>>

\* emit_with_log(&app, "export-started", ..), then Ok(ExportStartResult)
ExportEmitStarted ==
    /\ export_call.pc = "emit"
    /\ events' = Append(events, [name |-> "export-started", job_id |-> JobId])
    /\ export_call' = Returned(export_call, Ok(JobId, OutputPath(options)))
    /\ UNCHANGED <<project, options, target_os, files, compiled, previous, speed_in, tempo>>
    /\ UNCHANGED <<timeline, export_jobs>>
    /\ UNCHANGED <<job_vars, pending_vars, recorder_vars, stop_vars>>

NextExport ==
    \/ \E load \in LoadResults : ExportLoadProject(load)
    \/ \E probe \in ProbeResults : ExportValidate(probe)
    \/ \E probe \in ProbeResults : ExportBuildArgs(probe)
    \/ \E started \in BOOLEAN : ExportSpawn(started)
    \/ \E locked \in BOOLEAN : ExportRegister(locked)
    \/ ExportEmitStarted

SpecExport == InitExport /\ [][NextExport]_vars

---------------------------------------------------------------------------
(* The export jobs after export_project has started them (lib.rs): the     *)
(* ffmpeg process of each job, the task that listens to it, and the        *)
(* commands cancel_export, list_active_export_jobs and                     *)
(* cleanup_active_exports.  A process is "unspawned", "running", "exit 0", *)
(* "exit 1" (any other exit code) or "terminated" (ended by a signal).     *)
(* The mutex of the registry is never poisoned: no holder panics.          *)

\* the export-progress events one listener forwards from stderr
MaxProgress == 1

Event(name, job_id) == [name |-> name, job_id |-> job_id]

\* the events of a job, oldest first
EventsOf(j) == SelectSeq(events, LAMBDA e : e.job_id = j)

\* the process has ended, however it did
Ended(j) == processes[j] \in {"exit 0", "exit 1", "terminated"}

\* the number of a job id
JobNumber(j) == CHOOSE n \in 1..MaxJobs : JobName(n) = j

\* Vec::sort on job ids
RECURSIVE InsertId(_, _)
InsertId(sorted, j) ==
    IF Len(sorted) = 0 THEN <<j>>
    ELSE IF JobNumber(j) < JobNumber(Head(sorted)) THEN <<j>> \o sorted
    ELSE <<Head(sorted)>> \o InsertId(Tail(sorted), j)

RECURSIVE SortIds(_)
SortIds(ids) ==
    IF Len(ids) = 0 THEN <<>> ELSE InsertId(SortIds(Tail(ids)), Head(ids))

\* the orders in which a HashMap may iterate over the ids of a set
Orders(ids) ==
    {order \in [1..Cardinality(ids) -> ids] :
        \A a, b \in 1..Cardinality(ids) : a # b => order[a] # order[b]}

InitJobs ==
    /\ project = NewProject(<<Segment(<<0, Duration>>, TRUE)>>)
    /\ \E oi \in OptionInputs :
           options = oi[1] /\ target_os = oi[2] /\ oi[1].format = "mp4"
                                               /\ oi[2] = "linux"
    /\ files = {"screen.mp4"}
    /\ compiled = None
    /\ previous = None
    /\ speed_in = Micro(1)
    /\ tempo = None
    /\ timeline = None
    /\ export_call = IdleCall
    /\ export_jobs = {}
    /\ events = <<>>
    /\ NoJobs
    /\ NoPending
    /\ NoRecorder

\* what the job actions leave alone
job_frame == <<project, options, target_os, files, compiled, previous, speed_in, tempo, timeline, export_call, pending_vars, recorder_vars, stop_vars>>

\* export_project from the spawn on: the child runs, the job is registered,
\* export-started is emitted, the listener task is spawned
StartExport(j) ==
    /\ processes[j] = "unspawned"
    /\ processes' = [processes EXCEPT ![j] = "running"]
    /\ export_jobs' = export_jobs \cup {j}
    /\ events' = Append(events, Event("export-started", j))
    /\ listeners' = [listeners EXCEPT ![j] = "listening"]
    /\ UNCHANGED <<cancel_results, list_call, job_frame>>

\* ffmpeg ends by itself, with the exit code 0 or with another one
ProcessExit(j, code) ==
    /\ processes[j] = "running"
    /\ processes' = [processes EXCEPT ![j] = code]
    /\ UNCHANGED <<export_jobs, events, listeners, cancel_results, list_call, job_frame>>

\* CommandEvent::Stderr(line): the listener forwards the progress
ListenStderr(j) ==
    /\ listeners[j] = "listening"
    /\ processes[j] = "running"
    /\ Len(SelectSeq(EventsOf(j), LAMBDA e : e.name = "export-progress")) < MaxProgress
    /\ events' = Append(events, Event("export-progress", j))
    /\ UNCHANGED <<export_jobs, processes, listeners, cancel_results, list_call, job_frame>>

\* what the listener emits for a job that was still registered
TerminatedEvents(j) ==
    IF processes[j] = "exit 0"
    THEN <<Event("export-progress", j), Event("export-complete", j)>>
    ELSE <<Event("export-error", j)>>

\* ListenTerminated emitting whether or not the job was still registered
ListenTerminated_AlwaysEmits(j) ==
    /\ listeners[j] = "listening"
    /\ Ended(j)
    /\ export_jobs' = export_jobs \ {j}
    /\ events' = events \o TerminatedEvents(j)
    /\ listeners' = [listeners EXCEPT ![j] = "done"]
    /\ UNCHANGED <<processes, cancel_results, list_call, job_frame>>

\* CommandEvent::Terminated(status): the listener removes the job and, when
\* it was still registered, emits the terminal event of the exit code
ListenTerminated(j) ==
    /\ listeners[j] = "listening"
    /\ Ended(j)
    /\ export_jobs' = export_jobs \ {j}
    /\ events' = IF j \in export_jobs THEN events \o TerminatedEvents(j) ELSE events
    /\ listeners' = [listeners EXCEPT ![j] = "done"]
    /\ UNCHANGED <<processes, cancel_results, list_call, job_frame>>

\* Ok(())
OkUnit == [ok |-> TRUE, message |-> ""]

\* cancel_export(job_id): terminated tells whether terminate_process_by_pid
\* returned Ok (the signal was sent, or the process was already gone)
CancelExport(j, terminated) ==
    /\ IF j \notin export_jobs
       THEN /\ cancel_results' = [cancel_results EXCEPT
                                     ![j] = @ \cup {Err("Export job not found")}]
            /\ UNCHANGED <<export_jobs, processes, events>>
       ELSE /\ export_jobs' = export_jobs \ {j}
            /\ IF terminated
               THEN /\ processes' = [processes EXCEPT
                                        ![j] = IF @ = "running" THEN "terminated" ELSE @]
                    /\ events' = Append(events, Event("export-cancelled", j))
                    /\ cancel_results' = [cancel_results EXCEPT
                                             ![j] = @ \cup {OkUnit}]
               ELSE /\ cancel_results' = [cancel_results EXCEPT
                                             ![j] = @ \cup {Err("Failed to terminate process")}]
                    /\ UNCHANGED <<processes, events>>
    /\ UNCHANGED <<listeners, list_call, job_frame>>

\* is_process_running(pid) of a job whose check did not fail
IsProcessRunning(j) == processes[j] = "running"

\* ListCheck counting a job whose check failed as stale
ListCheck_FailedIsStale(order, failed) ==
    /\ list_call.pc = "idle"
    /\ list_call' = [pc |-> "checked",
                     job_entries |-> order,
                     active_job_ids |->
                         SelectSeq(order, LAMBDA j : j \notin failed /\ IsProcessRunning(j)),
                     stale_job_ids |->
                         SelectSeq(order, LAMBDA j : j \in failed \/ ~IsProcessRunning(j)),
                     result |-> None]
    /\ UNCHANGED <<export_jobs, events, processes, listeners, cancel_results, job_frame>>

\* active_export_job_ids up to the loop's end: the entries are copied under
\* the lock in the map's order, then every process is checked; a check that
\* fails keeps the job active
ListCheck(order, failed) ==
    /\ list_call.pc = "idle"
    /\ list_call' = [pc |-> "checked",
                     job_entries |-> order,
                     active_job_ids |->
                         SelectSeq(order, LAMBDA j : j \in failed \/ IsProcessRunning(j)),
                     stale_job_ids |->
                         SelectSeq(order, LAMBDA j : j \notin failed /\ ~IsProcessRunning(j)),
                     result |-> None]
    /\ UNCHANGED <<export_jobs, events, processes, listeners, cancel_results, job_frame>>

\* ListPrune returning the ids in the order of the map
ListPrune_Unsorted ==
    /\ list_call.pc = "checked"
    /\ export_jobs' = export_jobs \ {list_call.stale_job_ids[i] :
                                        i \in 1..Len(list_call.stale_job_ids)}
    /\ list_call' = IdleList(Some(list_call.active_job_ids))
    /\ UNCHANGED <<events, processes, listeners, cancel_results, job_frame>>

\* active_export_job_ids from the second lock on: the stale ids are removed,
\* the active ids are sorted and returned
ListPrune ==
    /\ list_call.pc = "checked"
    /\ export_jobs' = export_jobs \ {list_call.stale_job_ids[i] :
                                        i \in 1..Len(list_call.stale_job_ids)}
    /\ list_call' = IdleList(Some(SortIds(list_call.active_job_ids)))
    /\ UNCHANGED <<events, processes, listeners, cancel_results, job_frame>>

\* cleanup_active_exports: the registry is emptied and every registered
\* process is sent the signal; terminated holds the jobs it reached
CleanupActiveExports(terminated) ==
    /\ export_jobs # {}
    /\ export_jobs' = {}
    /\ processes' = [j \in Jobs |->
                        IF j \in export_jobs \cap terminated /\ processes[j] = "running"
                        THEN "terminated" ELSE processes[j]]
    /\ UNCHANGED <<events, listeners, cancel_results, list_call, job_frame>>

\* the commands, the processes and the listeners while the application runs
JobsRunning ==
    \/ \E j \in Jobs : StartExport(j)
    \/ \E j \in Jobs, code \in {"exit 0", "exit 1"} : ProcessExit(j, code)
    \/ \E j \in Jobs, terminated \in BOOLEAN : CancelExport(j, terminated)
    \/ \E ids \in SUBSET export_jobs :
           \E order \in Orders(export_jobs) : ListCheck(order, ids)
    \/ ListPrune
    \/ \E j \in Jobs : ListenStderr(j)
    \/ \E j \in Jobs : ListenTerminated(j)

NextJobs ==
    \/ JobsRunning
    \/ \E ids \in SUBSET export_jobs : CleanupActiveExports(ids)

SpecJobs == InitJobs /\ [][NextJobs]_vars

\* The running application: the runtime schedules every listener task and
\* every command that was called runs to its end.
SpecJobsLive ==
    /\ InitJobs
    /\ [][JobsRunning]_vars
    /\ \A j \in Jobs : WF_vars(ListenTerminated(j))
    /\ WF_vars(ListPrune)

---------------------------------------------------------------------------
(* The pending finalizations (lib.rs): the contexts of the recordings      *)
(* whose finalization failed, kept for a retry.  Of a StopRecordingResult  *)
(* the model keeps the fields these functions read.                        *)

ProjectIds == {"retry-project", "stale-project"}

PendingPaths == {"screen.mp4", "screen_part1.mp4"}

StopResults ==
    {[project_id |-> id, screen_video_path |-> "screen.mp4",
      screen_segment_paths |-> segments] :
        id \in ProjectIds,
        segments \in {<<>>, <<"screen.mp4">>, <<"screen_part1.mp4">>,
                      <<"screen.mp4", "screen_part1.mp4">>}}

\* Ok(value)
OkValue(value) == [ok |-> TRUE, value |-> value]

\* has_required_finalization_artifacts looking at the screen video only
has_required_finalization_artifacts_ScreenOnly(stop_result, existing) ==
    stop_result.screen_video_path \in existing

\* Ok(..) of has_required_finalization_artifacts, with the paths that exist
has_required_finalization_artifacts(stop_result, existing) ==
    /\ stop_result.screen_video_path \in existing
    /\ \A i \in 1..Len(stop_result.screen_segment_paths) :
           stop_result.screen_segment_paths[i] \in existing

\* guard.remove(project_id)
RemoveEntry(map, project_id) == [k \in DOMAIN map \ {project_id} |-> map[k]]

InitPending ==
    /\ project = NewProject(<<Segment(<<0, Duration>>, TRUE)>>)
    /\ \E oi \in OptionInputs :
           options = oi[1] /\ target_os = oi[2] /\ oi[1].format = "mp4"
                                               /\ oi[2] = "linux"
    /\ files \in SUBSET PendingPaths
    /\ compiled = None
    /\ previous = None
    /\ speed_in = Micro(1)
    /\ tempo = None
    /\ timeline = None
    /\ export_call = IdleCall
    /\ export_jobs = {}
    /\ events = <<>>
    /\ NoJobs
    /\ NoPending
    /\ NoRecorder

\* what the pending finalization actions leave alone
pending_frame == <<project, options, target_os, compiled, previous, speed_in, tempo, timeline, export_call, export_jobs, events, job_vars, recorder_vars, stop_vars>>

\* store_pending_finalization(stop_result)
StorePendingFinalization(stop_result) ==
    /\ pending_finalizations' =
           [k \in DOMAIN pending_finalizations \cup {stop_result.project_id} |->
               IF k = stop_result.project_id THEN stop_result
               ELSE pending_finalizations[k]]
    /\ UNCHANGED <<files, pending_call, pending_frame>>

\* clear_pending_finalization(project_id) called on its own
ClearPendingFinalization(project_id) ==
    /\ pending_finalizations' = RemoveEntry(pending_finalizations, project_id)
    /\ UNCHANGED <<files, pending_call, pending_frame>>

\* what the caller op gets when get_pending_finalization returns Ok(value)
PendingReturn(op, project_id, stop_result, value) ==
    IdlePendingCall(op, project_id, stop_result, Some(OkValue(value)),
                    IF op = "has" THEN Some(IsSome(value)) ELSE None)

\* get_pending_finalization(project_id), called by itself (op = "get") or by
\* has_pending_finalization (op = "has"): the entry is cloned under the
\* lock; without an entry the call returns Ok(None)
GetPendingFinalization(op, project_id) ==
    /\ pending_call.pc = "idle"
    /\ pending_call' =
           IF project_id \in DOMAIN pending_finalizations
           THEN [pc |-> "checking", op |-> op, project_id |-> project_id,
                 stop_result |-> Some(pending_finalizations[project_id]),
                 result |-> None, has |-> None]
           ELSE PendingReturn(op, project_id, None, None)
    /\ UNCHANGED <<files, pending_finalizations, pending_frame>>

\* has_required_finalization_artifacts(&stop_result)?: an I/O error of a
\* check is returned; with every artifact the context is returned; else the
\* entry is to be cleared
CheckArtifacts(io_error) ==
    /\ pending_call.pc = "checking"
    /\ pending_call' =
           IF io_error
           THEN IdlePendingCall(pending_call.op, pending_call.project_id,
                                pending_call.stop_result,
                                Some(Err("Failed to verify pending finalization artifact")),
                                None)
           ELSE IF has_required_finalization_artifacts(
                       Unwrap(pending_call.stop_result), files)
           THEN PendingReturn(pending_call.op, pending_call.project_id,
                              pending_call.stop_result, pending_call.stop_result)
           ELSE [pending_call EXCEPT !.pc = "clearing"]
    /\ UNCHANGED <<files, pending_finalizations, pending_frame>>

\* clear_pending_finalization(pending_finalizations, project_id)?; Ok(None)
ClearStale ==
    /\ pending_call.pc = "clearing"
    /\ pending_finalizations' =
           RemoveEntry(pending_finalizations, pending_call.project_id)
    /\ pending_call' = PendingReturn(pending_call.op, pending_call.project_id,
                                     pending_call.stop_result, None)
    /\ UNCHANGED <<files, pending_frame>>

\* a recording artifact is written or deleted on disk
WriteFile(path) ==
    /\ path \notin files
    /\ files' = files \cup {path}
    /\ UNCHANGED <<pending_vars, pending_frame>>

RemoveFile(path) ==
    /\ path \in files
    /\ files' = files \ {path}
    /\ UNCHANGED <<pending_vars, pending_frame>>

NextPending ==
    \/ \E stop_result \in StopResults : StorePendingFinalization(stop_result)
    \/ \E project_id \in ProjectIds : ClearPendingFinalization(project_id)
    \/ \E op \in {"get", "has"}, project_id \in ProjectIds :
           GetPendingFinalization(op, project_id)
    \/ \E io_error \in BOOLEAN : CheckArtifacts(io_error)
    \/ ClearStale
    \/ \E path \in PendingPaths : WriteFile(path)
    \/ \E path \in PendingPaths : RemoveFile(path)

SpecPending == InitPending /\ [][NextPending]_vars

---------------------------------------------------------------------------
(* Reading a compiled argument vector                                      *)

Has(args, token) == \E i \in 1..Len(args) : args[i] = token

\* the index of the first `token` in args, Len(args) + 1 when there is none
FirstIndex(args, token) ==
    IF Has(args, token)
    THEN CHOOSE i \in 1..Len(args) :
             args[i] = token /\ \A j \in 1..(i - 1) : args[j] # token
    ELSE Len(args) + 1

\* an option with its value, both before the first -i
HasBeforeInput(args, option, value) ==
    \E i \in 1..(FirstIndex(args, "-i") - 2) : args[i] = option /\ args[i + 1] = value

\* the (start, end) pairs of the enabled segments, in the EDL's order
EnabledRanges(p) ==
    [i \in 1..Len(SelectSeq(p.edits.segments, LAMBDA s : s.enabled)) |->
        <<SelectSeq(p.edits.segments, LAMBDA s : s.enabled)[i].start_time,
          SelectSeq(p.edits.segments, LAMBDA s : s.enabled)[i].end_time>>]

NoSpeedOrZoom(p) == Len(p.edits.speed) = 0 /\ Len(p.edits.zoom) = 0

NoCameraNoMicrophone(p) ==
    ~IsSome(p.camera_video_path) /\ ~IsSome(p.microphone_audio_path)

\* a node of the graph that writes `label`
WritesLabel(parts, label) ==
    \E i \in 1..Len(parts) : \E j \in 1..Len(parts[i].outs) : parts[i].outs[j] = label

---------------------------------------------------------------------------
(* The seek fast path                                                      *)

\* C1's project: 20 s long, one enabled segment [5 s, 15 s], no camera, no
\* microphone, no speed or zoom effect
TrimmedSegmentProject(p) ==
    /\ p.duration = Micro(20)
    /\ EnabledRanges(p) = <<<<Micro(5), Micro(15)>>>>
    /\ NoCameraNoMicrophone(p)
    /\ NoSpeedOrZoom(p)

\* C1: for a project with the single enabled segment [5 s, 15 s] of a 20 s
\* source, no camera, no microphone and no speed or zoom effect,
\* build_ffmpeg_args emits -ss 5 and -to 15 before the first -i and no
\* -filter_complex.
C1_TrimmedSegmentSeeks ==
    (IsSome(compiled) /\ TrimmedSegmentProject(project)) =>
        /\ HasBeforeInput(Unwrap(compiled).args, "-ss", "5")
        /\ HasBeforeInput(Unwrap(compiled).args, "-to", "15")
        /\ ~Has(Unwrap(compiled).args, "-filter_complex")

\* what the program does with C1's project exported as Mp4 or Mov: no seek
\* argument, and a graph that trims the piece
C1_TrimmedSegmentIsFiltered ==
    (IsSome(compiled) /\ TrimmedSegmentProject(project)
        /\ options.format \in {"mp4", "mov"}) =>
        /\ ~Has(Unwrap(compiled).args, "-ss")
        /\ Has(Unwrap(compiled).args, "-filter_complex")
        /\ WritesLabel(Unwrap(compiled).filter_parts, "[vpiece0]")

C1_Reached ==
    IsSome(compiled) /\ TrimmedSegmentProject(project) /\ options.format = "mp4"

\* C2's project: no speed or zoom effect, one enabled segment, the whole source
FullSegmentProject(p) ==
    /\ NoSpeedOrZoom(p)
    /\ EnabledRanges(p) = <<<<0, p.duration>>>>

\* C2 as stated: for a project with no speed or zoom effects and a single
\* enabled full-duration segment, timeline_is_edited is false and, with no
\* camera and no microphone, build_ffmpeg_args selects the fast path.
C2_FullSegmentSeeks ==
    (IsSome(compiled) /\ FullSegmentProject(project)) =>
        /\ ~Unwrap(compiled).timeline_edited
        /\ NoCameraNoMicrophone(project) =>
               /\ Unwrap(compiled).use_input_seeking
               /\ Has(Unwrap(compiled).args, "-ss")

\* C2 (amended): for such a project timeline_is_edited is false, the
\* per-piece trim pipeline is not built, and the fast path is not selected:
\* the segment is no strict sub-range, and no -ss or -to is emitted.
C2_FullSegmentNotEditedNoSeek ==
    (IsSome(compiled) /\ FullSegmentProject(project)) =>
        /\ ~Unwrap(compiled).timeline_edited
        /\ ~Unwrap(compiled).use_input_seeking
        /\ ~Has(Unwrap(compiled).args, "-ss")
        /\ ~Has(Unwrap(compiled).args, "-to")
        /\ ~WritesLabel(Unwrap(compiled).filter_parts, "[vpiece0]")

C2_Reached ==
    /\ IsSome(compiled)
    /\ FullSegmentProject(project)
    /\ NoCameraNoMicrophone(project)
    /\ options.format = "mp4"

\* the six conditions of the fast path, read off the project
FastPathConditions(p) ==
    /\ ~IsSome(p.camera_video_path)
    /\ ~IsSome(p.microphone_audio_path)
    /\ Len(EnabledRanges(p)) = 1
    /\ 0 <= EnabledRanges(p)[1][1]
    /\ EnabledRanges(p)[1][1] <= EnabledRanges(p)[1][2]
    /\ EnabledRanges(p)[1][2] <= p.duration
    /\ (EnabledRanges(p)[1][1] > 0 \/ EnabledRanges(p)[1][2] < p.duration)
    /\ ~timeline_is_edited(p, build_timeline_pieces(p))
    /\ Len(p.edits.zoom) = 0

\* C3: the fast path is selected (-ss and -to lead the arguments) if and
\* only if there is no camera, no microphone, exactly one segment is
\* enabled, that segment is a strict sub-range of [0, duration], the
\* timeline is not edited and there is no zoom effect.
C3_FastPathIffConditions ==
    IsSome(compiled) =>
        /\ Unwrap(compiled).use_input_seeking <=> FastPathConditions(project)
        /\ Unwrap(compiled).use_input_seeking <=>
               /\ Len(Unwrap(compiled).args) >= 4
               /\ Unwrap(compiled).args[1] = "-ss"
               /\ Unwrap(compiled).args[3] = "-to"
        /\ Unwrap(compiled).use_input_seeking <=> Has(Unwrap(compiled).args, "-ss")

C3_Reached ==
    /\ IsSome(compiled)
    /\ Unwrap(compiled).use_input_seeking
    /\ Unwrap(compiled).args[2] = "0.0005"
    /\ Unwrap(compiled).args[4] = "20"

\* a state where only the zoom condition keeps the fast path off
C3_ZoomKeepsFastPathOff ==
    /\ IsSome(compiled)
    /\ ~Unwrap(compiled).use_input_seeking
    /\ ~Unwrap(compiled).timeline_edited
    /\ Len(project.edits.zoom) > 0
    /\ EnabledRanges(project) = <<<<500, Duration>>>>

\* an annotation that is drawn (not skipped as too short)
DrawsAnnotation(p) ==
    \E i \in 1..Len(p.edits.annotations) :
        ~AnnotationSkipped(AnnotationGeometry(p.edits.annotations[i], p.duration))

\* the system volume is outside the no-op band of apply_audio_gain
SystemVolumeApplied(p) ==
    Abs(Clamp(p.edits.audio_mix.system_volume, 0, Micro(2)) - Micro(1)) >= GainNoopBand

\* C4 as stated: when the fast path applies, no -filter_complex is emitted.
C4_FastPathNoFilterComplex ==
    (IsSome(compiled) /\ Unwrap(compiled).use_input_seeking) =>
        ~Has(Unwrap(compiled).args, "-filter_complex")

\* C4 (amended): when the fast path applies the per-piece trim and concat
\* pipeline is skipped (no video piece, no audio piece), and -filter_complex
\* is emitted exactly when the graph is needed for something else: a drawn
\* annotation or an applied system volume in an Mp4/Mov export, an applied
\* system volume in a Wav/Mp3 export (the volume only when the screen file
\* has audio).
C4_FastPathSkipsPiecesOnly ==
    (IsSome(compiled) /\ Unwrap(compiled).use_input_seeking) =>
        /\ ~WritesLabel(Unwrap(compiled).filter_parts, "[vpiece0]")
        /\ ~WritesLabel(Unwrap(compiled).filter_parts, "[ascreen0]")
        /\ ~WritesLabel(Unwrap(compiled).filter_parts, "[vconcat]")
        /\ Has(Unwrap(compiled).args, "-filter_complex") <=>
               \/ /\ options.format \in {"mp4", "mov"}
                  /\ \/ DrawsAnnotation(project)
                     \/ Unwrap(compiled).screen_has_audio /\ SystemVolumeApplied(project)
               \/ /\ options.format \in {"wav", "mp3"}
                  /\ Unwrap(compiled).screen_has_audio
                  /\ SystemVolumeApplied(project)

C4_Reached ==
    /\ IsSome(compiled)
    /\ Unwrap(compiled).use_input_seeking
    /\ Has(Unwrap(compiled).args, "-filter_complex")
    /\ DrawsAnnotation(project)


---------------------------------------------------------------------------
(* The timeline segmenter                                                  *)

RECURSIVE SumDurations(_)
SumDurations(pieces) ==
    IF Len(pieces) = 0 THEN 0
    ELSE (Head(pieces).end - Head(pieces).start) + SumDurations(Tail(pieces))

\* the pieces that lie in the segment, in order
PiecesIn(pieces, seg) ==
    SelectSeq(pieces, LAMBDA pc : seg[1] <= pc.start /\ pc.end <= seg[2])

\* the pieces in the segment are contiguous from its start to its end
TilesSegment(pieces, seg) ==
    /\ Len(PiecesIn(pieces, seg)) >= 1
    /\ PiecesIn(pieces, seg)[1].start = seg[1]
    /\ PiecesIn(pieces, seg)[Len(PiecesIn(pieces, seg))].end = seg[2]
    /\ \A i \in 1..(Len(PiecesIn(pieces, seg)) - 1) :
           PiecesIn(pieces, seg)[i].end = PiecesIn(pieces, seg)[i + 1].start
    /\ SumDurations(PiecesIn(pieces, seg)) = seg[2] - seg[1]

\* the pieces tile every enabled segment of positive length, none overlaps
\* another, and each lies in an enabled segment
TilesEnabledSegments(pieces, p) ==
    /\ \A k \in 1..Len(EnabledRanges(p)) :
           EnabledRanges(p)[k][1] < EnabledRanges(p)[k][2]
               => TilesSegment(pieces, EnabledRanges(p)[k])
    /\ \A i, j \in 1..Len(pieces) :
           i < j => pieces[i].end <= pieces[j].start \/ pieces[j].end <= pieces[i].start
    /\ \A i \in 1..Len(pieces) :
           /\ pieces[i].start < pieces[i].end
           /\ \E k \in 1..Len(EnabledRanges(p)) :
                  /\ EnabledRanges(p)[k][1] <= pieces[i].start
                  /\ pieces[i].end <= EnabledRanges(p)[k][2]

\* no two enabled segments overlap, and one has a positive length
DisjointEnabledSegments(p) ==
    /\ \E k \in 1..Len(EnabledRanges(p)) : EnabledRanges(p)[k][1] < EnabledRanges(p)[k][2]
    /\ \A i, j \in 1..Len(EnabledRanges(p)) :
           i < j => \/ EnabledRanges(p)[i][2] <= EnabledRanges(p)[j][1]
                    \/ EnabledRanges(p)[j][2] <= EnabledRanges(p)[i][1]

\* C5 as stated: for every EDL the pieces of build_timeline_pieces exactly
\* tile each enabled segment: contiguous, from the segment's start to its
\* end, durations summing to the segment's, no two pieces overlapping, no
\* piece in a disabled gap.
C5_PiecesTileEverySegment ==
    IsSome(compiled) => TilesEnabledSegments(Unwrap(compiled).timeline_pieces, project)

\* C5 (amended): the same, for every EDL whose enabled segments do not
\* overlap one another and of which one has a positive length.
C5_PiecesTileDisjointSegments ==
    (IsSome(compiled) /\ DisjointEnabledSegments(project)) =>
        TilesEnabledSegments(Unwrap(compiled).timeline_pieces, project)

\* two enabled segments, one of them split by an effect
C5_Reached ==
    /\ IsSome(compiled)
    /\ DisjointEnabledSegments(project)
    /\ Len(EnabledRanges(project)) = 2
    /\ Len(Unwrap(compiled).timeline_pieces) = 3

\* C6: enabled_segments returns the enabled segments in ascending order of
\* start, and is never empty when validation has passed.
C6_EnabledSegmentsSortedNonEmpty ==
    IsSome(compiled) =>
        /\ \A i \in 1..(Len(Unwrap(compiled).enabled_segments) - 1) :
               Unwrap(compiled).enabled_segments[i][1]
                   <= Unwrap(compiled).enabled_segments[i + 1][1]
        /\ Unwrap(compiled).validation = "ok" =>
               /\ Len(Unwrap(compiled).enabled_segments) >= 1
               /\ Len(Unwrap(compiled).enabled_segments) = Len(EnabledRanges(project))
               /\ \A r \in {EnabledRanges(project)[k] : k \in 1..Len(EnabledRanges(project))} :
                      Cardinality({i \in 1..Len(EnabledRanges(project)) :
                                       EnabledRanges(project)[i] = r})
                      = Cardinality({i \in 1..Len(Unwrap(compiled).enabled_segments) :
                                         Unwrap(compiled).enabled_segments[i] = r})

\* validation passed on an EDL that lists a later segment first
C6_Reached ==
    /\ IsSome(compiled)
    /\ Unwrap(compiled).validation = "ok"
    /\ EnabledRanges(project) = <<<<Micro(15), Duration>>, <<0, Micro(5)>>>>
    /\ Unwrap(compiled).enabled_segments = <<<<0, Micro(5)>>, <<Micro(15), Duration>>>>


---------------------------------------------------------------------------
(* Speed: the tempo chain and the video timestamps                         *)

\* how many of the factors before the last are `step`
StepCount(factors, step) ==
    Cardinality({i \in 1..(Len(factors) - 1) : factors[i] = step})

\* The product of the factors is within `tolerance` (in millionths) of the
\* speed.  Each factor before the last is exactly 2 or 1/2, so with h of
\* the first and d of the second the product is last * 2^h / 2^d; the
\* comparison is made in units of 1e-6 / 2^d.
ProductWithin(factors, speed, tolerance) ==
    /\ \A i \in 1..(Len(factors) - 1) : factors[i] \in {200000, 50000}
    /\ Abs(factors[Len(factors)] * 10 * Pow(2, StepCount(factors, 200000))
           - speed * Pow(2, StepCount(factors, 50000)))
       <= tolerance * Pow(2, StepCount(factors, 50000))

\* each factor (in units of 1e-5) lies in [0.5, 2.0]
FactorsInRange(factors) ==
    \A i \in 1..Len(factors) : AtempoMin <= factors[i] * 10 /\ factors[i] * 10 <= AtempoMax

\* the chain that was returned holds the factors
ChainEmitted == IsSome(tempo) /\ IsSome(Unwrap(tempo).chain)

\* C7 as stated: for every speed v > 0 the factors atempo_chain emits
\* multiply to v within 1e-4, and each factor lies in [0.5, 2.0].
C7_FactorsMultiplyToSpeed ==
    ChainEmitted =>
        /\ ProductWithin(Unwrap(tempo).factors, speed_in, Micro(1) \div 10000)
        /\ FactorsInRange(Unwrap(tempo).factors)

\* C7 (amended): for every speed v > 0 for which a chain is emitted
\* (|v - 1| >= 0.01) each factor lies in [0.5, 2.0], and for v <= 32 the
\* factors multiply to v within 1e-4; no chain is emitted for |v - 1| < 0.01.
C7_FactorsMultiplyUpTo32 ==
    IsSome(tempo) =>
        /\ IsSome(Unwrap(tempo).chain) <=> Abs(speed_in - Micro(1)) >= SpeedNoopBand
        /\ IsSome(Unwrap(tempo).chain) =>
               /\ FactorsInRange(Unwrap(tempo).factors)
               /\ speed_in <= Micro(32) =>
                      ProductWithin(Unwrap(tempo).factors, speed_in, Micro(1) \div 10000)

\* a chain of four 2.0 steps and a rounded last factor
C7_Reached ==
    /\ ChainEmitted
    /\ speed_in = Micro(32) - (Micro(1) \div 2) + 150
    /\ Len(Unwrap(tempo).factors) = 5
    /\ Unwrap(tempo).factors[5] * 160 # speed_in

\* a node of the graph that writes exactly `label` with the filter `filter`
HasNode(parts, label, filter) ==
    \E k \in 1..Len(parts) : parts[k].outs = <<label>> /\ parts[k].filter = filter

\* C8: a speed effect of 3.0 on a sub-range of an enabled segment makes the
\* piece that covers the sub-range 3.0 fast: its audio gets the chain
\* "atempo=2.0,atempo=1.50000" and its video setpts divides by "3.000000",
\* so audio and video are sped up by the same factor.
C8_SpeedThreeAudioAndVideo ==
    (IsSome(compiled) /\ options.format \in {"mp4", "mov"}) =>
        /\ \A i \in 1..Len(Unwrap(compiled).timeline_pieces) :
               (/\ Unwrap(compiled).timeline_pieces[i].speed = Micro(3)
                /\ ~IsSome(Unwrap(compiled).timeline_pieces[i].zoom)) =>
                   /\ HasNode(Unwrap(compiled).filter_parts,
                              "[vpiece" \o ToString(i - 1) \o "]",
                              "trim=start=" \o Fmt6(Unwrap(compiled).timeline_pieces[i].start)
                                  \o ":end=" \o Fmt6(Unwrap(compiled).timeline_pieces[i].end)
                                  \o ",setpts=(PTS-STARTPTS)/3.000000")
                   /\ Unwrap(compiled).screen_has_audio =>
                          HasNode(Unwrap(compiled).filter_parts,
                                  "[ascreen" \o ToString(i - 1) \o "]",
                                  "atrim=start=" \o Fmt6(Unwrap(compiled).timeline_pieces[i].start)
                                      \o ":end=" \o Fmt6(Unwrap(compiled).timeline_pieces[i].end)
                                      \o ",asetpts=PTS-STARTPTS,atempo=2.0,atempo=1.50000")
                   /\ IsSome(project.microphone_audio_path) =>
                          \E k \in 1..Len(Unwrap(compiled).filter_parts) :
                              /\ Unwrap(compiled).filter_parts[k].outs
                                     = <<"[amicpiece" \o ToString(i - 1) \o "]">>
                              /\ Unwrap(compiled).filter_parts[k].filter
                                     = "atrim=start="
                                       \o Fmt6(Unwrap(compiled).timeline_pieces[i].start)
                                       \o ":end=" \o Fmt6(Unwrap(compiled).timeline_pieces[i].end)
                                       \o ",asetpts=PTS-STARTPTS,atempo=2.0,atempo=1.50000"
        /\ \A e \in 1..Len(project.edits.speed) :
               (/\ Len(project.edits.speed) = 1
                /\ Len(project.edits.zoom) = 0
                /\ project.edits.speed[e].speed = Micro(3)
                /\ \E k \in 1..Len(EnabledRanges(project)) :
                       /\ EnabledRanges(project)[k][1] <= project.edits.speed[e].start_time
                       /\ project.edits.speed[e].start_time < project.edits.speed[e].end_time
                       /\ project.edits.speed[e].end_time <= EnabledRanges(project)[k][2]) =>
                   \E i \in 1..Len(Unwrap(compiled).timeline_pieces) :
                       /\ Unwrap(compiled).timeline_pieces[i].start
                              = project.edits.speed[e].start_time
                       /\ Unwrap(compiled).timeline_pieces[i].end
                              = project.edits.speed[e].end_time
                       /\ Unwrap(compiled).timeline_pieces[i].speed = Micro(3)

\* the whole source enabled, 3.0 fast from 5 s to 15 s, the screen has audio
C8_Reached ==
    /\ IsSome(compiled)
    /\ options.format = "mp4"
    /\ Unwrap(compiled).screen_has_audio
    /\ EnabledRanges(project) = <<<<0, Duration>>>>
    /\ Len(Unwrap(compiled).timeline_pieces) = 3
    /\ Unwrap(compiled).timeline_pieces[2].speed = Micro(3)
    /\ HasNode(Unwrap(compiled).filter_parts, "[ascreen1]",
               "atrim=start=5.000000:end=15.000000,asetpts=PTS-STARTPTS,atempo=2.0,atempo=1.50000")
    /\ HasNode(Unwrap(compiled).filter_parts, "[vpiece1]",
               "trim=start=5.000000:end=15.000000,setpts=(PTS-STARTPTS)/3.000000")


---------------------------------------------------------------------------
(* Concatenation of the video pieces                                       *)

\* "[vpiece0]", ..., "[vpiece(n-1)]"
VideoPieceLabels(n) == [i \in 1..n |-> "[vpiece" \o ToString(i - 1) \o "]"]

\* the nodes of the graph that write [vconcat]
VideoConcatNodes(parts) == {k \in 1..Len(parts) : parts[k].outs = <<"[vconcat]">>}

\* two enabled segments of positive length
TwoEnabledSegments(p) ==
    /\ Len(EnabledRanges(p)) = 2
    /\ \A k \in 1..2 : EnabledRanges(p)[k][1] < EnabledRanges(p)[k][2]

\* C9: in an Mp4/Mov export of a project with two enabled segments and no
\* effects the arguments hold -filter_complex and the graph holds a concat
\* node that reads exactly the two trimmed video labels; in general n > 1
\* pieces are concatenated by one node that reads the n labels in order,
\* and a single piece's label is used directly, without a concat node.
C9_ConcatOfVideoPieces ==
    (IsSome(compiled) /\ options.format \in {"mp4", "mov"}) =>
        /\ (TwoEnabledSegments(project) /\ NoSpeedOrZoom(project)) =>
               /\ Has(Unwrap(compiled).args, "-filter_complex")
               /\ \E k \in 1..Len(Unwrap(compiled).filter_parts) :
                      /\ Unwrap(compiled).filter_parts[k].ins = <<"[vpiece0]", "[vpiece1]">>
                      /\ Unwrap(compiled).filter_parts[k].filter = "concat=n=2:v=1:a=0"
               /\ \A i \in 1..2 :
                      \E k \in 1..Len(Unwrap(compiled).filter_parts) :
                          /\ Unwrap(compiled).filter_parts[k].ins = <<"[0:v]">>
                          /\ Unwrap(compiled).filter_parts[k].outs = <<VideoPieceLabels(2)[i]>>
        /\ Len(Unwrap(compiled).timeline_pieces) > 1 =>
               /\ Cardinality(VideoConcatNodes(Unwrap(compiled).filter_parts)) = 1
               /\ \A k \in VideoConcatNodes(Unwrap(compiled).filter_parts) :
                      /\ Unwrap(compiled).filter_parts[k].ins
                             = VideoPieceLabels(Len(Unwrap(compiled).timeline_pieces))
                      /\ Unwrap(compiled).filter_parts[k].filter
                             = "concat=n=" \o ToString(Len(Unwrap(compiled).timeline_pieces))
                               \o ":v=1:a=0"
        /\ (Len(Unwrap(compiled).timeline_pieces) = 1 /\ Unwrap(compiled).timeline_edited) =>
               /\ VideoConcatNodes(Unwrap(compiled).filter_parts) = {}
               /\ WritesLabel(Unwrap(compiled).filter_parts, "[vpiece0]")
               /\ \E k \in 1..Len(Unwrap(compiled).filter_parts) :
                      Unwrap(compiled).filter_parts[k].ins[1] = "[vpiece0]"

\* the head and the tail of the source enabled, nothing else
C9_Reached ==
    /\ IsSome(compiled)
    /\ options.format = "mov"
    /\ EnabledRanges(project) = <<<<0, Micro(5)>>, <<Micro(15), Duration>>>>
    /\ NoSpeedOrZoom(project)
    /\ Cardinality(VideoConcatNodes(Unwrap(compiled).filter_parts)) = 1

---------------------------------------------------------------------------
(* Determinism                                                             *)

---------------------------------------------------------------------------
(* C17: the zoom of a piece                                                *)

\* the enabled segments all have no length: segmentation yields no piece
\* and build_timeline_pieces falls back to one piece
NoPieceFromSegments(segments) ==
    \A i \in 1..Len(segments) : segments[i][2] <= segments[i][1]

Contains(effect, b) == b >= effect.start_time /\ b < effect.end_time

\* the zoom effects that contain b and magnify (scale > 1.0)
LargeContaining(p, b) ==
    {i \in 1..Len(p.edits.zoom) :
        Contains(p.edits.zoom[i], b) /\ p.edits.zoom[i].scale > Micro(1)}

FirstOf(indices) == CHOOSE i \in indices : \A j \in indices : i <= j

ActiveZoom(effect) == [scale |-> effect.scale, x |-> effect.x, y |-> effect.y]

\* C17 (as the specification states it): the zoom of every piece that
\* starts at a breakpoint b is the first zoom effect, in declaration order,
\* that contains b and has a scale greater than 1.0, and None when there is
\* no such effect.
C17_ZoomIsFirstLargeContaining ==
    (IsSome(timeline) /\ ~NoPieceFromSegments(Unwrap(timeline).segments)) =>
        \A k \in 1..Len(Unwrap(timeline).pieces) :
            LET piece == Unwrap(timeline).pieces[k]
                large == LargeContaining(project, piece.start)
            IN  piece.zoom = IF large = {} THEN None
                             ELSE Some(ActiveZoom(project.edits.zoom[FirstOf(large)]))

\* C17 (what the code does): the zoom of a piece is decided by the first
\* zoom effect that contains b, whatever its scale; the piece has no zoom
\* when that effect has a scale of 1.0 or less, even if a later effect that
\* contains b magnifies.
C17_ZoomIsFirstContaining ==
    (IsSome(timeline) /\ ~NoPieceFromSegments(Unwrap(timeline).segments)) =>
        \A k \in 1..Len(Unwrap(timeline).pieces) :
            LET piece == Unwrap(timeline).pieces[k]
                containing == {i \in 1..Len(project.edits.zoom) :
                                  Contains(project.edits.zoom[i], piece.start)}
            IN  piece.zoom =
                    IF containing = {} THEN None
                    ELSE IF project.edits.zoom[FirstOf(containing)].scale > Micro(1)
                         THEN Some(ActiveZoom(project.edits.zoom[FirstOf(containing)]))
                         ELSE None

\* a piece with no zoom although a later zoom effect that contains its start
\* magnifies: an earlier effect of scale 1.0 contains the start too
C17_Reached ==
    /\ IsSome(timeline)
    /\ ~NoPieceFromSegments(Unwrap(timeline).segments)
    /\ \E k \in 1..Len(Unwrap(timeline).pieces) :
           /\ Unwrap(timeline).pieces[k].zoom = None
           /\ LargeContaining(project, Unwrap(timeline).pieces[k].start) # {}

---------------------------------------------------------------------------
(* C18: the speed of a piece                                               *)

\* C18: the speed of every piece that starts at a breakpoint b is the speed
\* of the first speed effect, in declaration order, whose [start, end)
\* contains b, and 1.0 when no speed effect contains b.
C18_SpeedIsFirstContaining ==
    (IsSome(timeline) /\ ~NoPieceFromSegments(Unwrap(timeline).segments)) =>
        \A k \in 1..Len(Unwrap(timeline).pieces) :
            LET piece == Unwrap(timeline).pieces[k]
                containing == {i \in 1..Len(project.edits.speed) :
                                  Contains(project.edits.speed[i], piece.start)}
            IN  piece.speed = IF containing = {} THEN Micro(1)
                              ELSE project.edits.speed[FirstOf(containing)].speed

\* a piece whose start lies in two speed effects of different speeds
C18_Reached ==
    /\ IsSome(timeline)
    /\ ~NoPieceFromSegments(Unwrap(timeline).segments)
    /\ \E k \in 1..Len(Unwrap(timeline).pieces) :
           \E i, j \in 1..Len(project.edits.speed) :
               /\ i < j
               /\ Contains(project.edits.speed[i], Unwrap(timeline).pieces[k].start)
               /\ Contains(project.edits.speed[j], Unwrap(timeline).pieces[k].start)
               /\ project.edits.speed[i].speed # project.edits.speed[j].speed
               /\ Unwrap(timeline).pieces[k].speed = project.edits.speed[i].speed

---------------------------------------------------------------------------
(* C19: timeline_is_edited                                                 *)

\* C19: timeline_is_edited is true exactly when there is more than one
\* piece, or the single piece differs from [0, duration] by more than
\* 0.001 s at either end, or its speed differs from 1.0 by more than 0.01,
\* or it carries a zoom.
C19_EditedIffPieceDiffers ==
    IsSome(timeline) =>
        LET pieces == Unwrap(timeline).pieces
        IN  Unwrap(timeline).edited <=>
                \/ Len(pieces) > 1
                \/ /\ Len(pieces) = 1
                   /\ \/ Abs(pieces[1].start - 0) > 1000
                      \/ Abs(pieces[1].end - project.duration) > 1000
                      \/ Abs(pieces[1].speed - Micro(1)) > 10000
                      \/ pieces[1].zoom # None

\* a single piece that is not exactly [0, duration] at speed 1.0 and is
\* still not edited: it lies within the tolerances
C19_Reached ==
    /\ IsSome(timeline)
    /\ Len(Unwrap(timeline).pieces) = 1
    /\ ~Unwrap(timeline).edited
    /\ \/ Unwrap(timeline).pieces[1].start # 0
       \/ Unwrap(timeline).pieces[1].end # project.duration
       \/ Unwrap(timeline).pieces[1].speed # Micro(1)

---------------------------------------------------------------------------
(* C20: build_timeline_pieces never returns an empty list                  *)

\* C20: build_timeline_pieces returns at least one piece; when segmentation
\* yields no piece it returns exactly the piece [0, duration] with speed 1.0
\* and no zoom; otherwise every piece has start < end.
C20_PiecesNeverEmpty ==
    IsSome(timeline) =>
        /\ Len(Unwrap(timeline).pieces) >= 1
        /\ IF NoPieceFromSegments(Unwrap(timeline).segments)
           THEN Unwrap(timeline).pieces =
                    <<[start |-> 0, end |-> project.duration,
                       speed |-> Micro(1), zoom |-> None]>>
           ELSE \A k \in 1..Len(Unwrap(timeline).pieces) :
                    Unwrap(timeline).pieces[k].start < Unwrap(timeline).pieces[k].end

\* the fallback piece, for a project whose only enabled segment has no length
C20_Reached ==
    /\ IsSome(timeline)
    /\ \E i \in 1..Len(project.edits.segments) : project.edits.segments[i].enabled
    /\ NoPieceFromSegments(Unwrap(timeline).segments)
    /\ Len(Unwrap(timeline).pieces) = 1
    /\ Unwrap(timeline).pieces[1].end = project.duration

---------------------------------------------------------------------------
(* C13: a failed probe is no audio                                         *)

\* C13: when the probe of the screen file cannot run or exits
\* unsuccessfully, has_audio_stream reports false, and build_ffmpeg_args
\* returns exactly the arguments it returns for a screen file without an
\* audio stream: two consecutive calls, one with a failed probe and one
\* with a probe that found no audio stream, return the same vector.
C13_FailedProbeIsNoAudio ==
    IsSome(compiled) =>
        /\ Unwrap(compiled).probe = "failed" => ~Unwrap(compiled).screen_has_audio
        /\ (IsSome(previous)
            /\ {Unwrap(previous).probe, Unwrap(compiled).probe} = {"failed", "no"})
           => Unwrap(compiled).args = Unwrap(previous).args

\* a call whose probe failed, after a call whose probe found no audio
\* stream, for a project of two segments exported to mp4
C13_Reached ==
    /\ IsSome(compiled)
    /\ IsSome(previous)
    /\ Unwrap(previous).probe = "no"
    /\ Unwrap(compiled).probe = "failed"
    /\ options.format = "mp4"
    /\ Len(Unwrap(compiled).timeline_pieces) = 2
    /\ Unwrap(compiled).args = Unwrap(previous).args

---------------------------------------------------------------------------
(* C14: the audio map of an Mp4/Mov export                                 *)

\* the values of the -map options, in order
RECURSIVE MapValues(_)
MapValues(args) ==
    IF Len(args) < 2 THEN <<>>
    ELSE IF args[1] = "-map" THEN <<args[2]>> \o MapValues(SubSeq(args, 3, Len(args)))
    ELSE MapValues(SubSeq(args, 2, Len(args)))

\* the -map values after the first one, which maps the video
AudioMaps(args) == SubSeq(MapValues(args), 2, Len(MapValues(args)))

\* C14: in an Mp4/Mov export, (a) with no filter built and an audio stream
\* in the source, the source audio is mapped optionally (-map 0:a?); (b)
\* with no filter built and no audio in the source, there is no audio map;
\* (c) with filters built and [0:a] as the final audio label, it is mapped
\* optionally (0:a?); (d) with filters built and a label the graph writes
\* as the final audio label, that label is mapped as it is.
C14_AudioMapCases ==
    (IsSome(compiled) /\ options.format \in {"mp4", "mov"}) =>
        LET c     == Unwrap(compiled)
            built == Len(c.filter_parts) > 0
        IN  /\ (~built /\ c.screen_has_audio) => AudioMaps(c.args) = <<"0:a?">>
            /\ (~built /\ ~c.screen_has_audio) => AudioMaps(c.args) = <<>>
            /\ (built /\ c.audio_output_label = Some("[0:a]"))
                   => AudioMaps(c.args) = <<"0:a?">>
            /\ (built /\ IsSome(c.audio_output_label)
                      /\ WritesLabel(c.filter_parts, Unwrap(c.audio_output_label)))
                   => AudioMaps(c.args) = <<Unwrap(c.audio_output_label)>>

\* a call in case (c): filters are built for the video and the audio is
\* still the raw stream of the screen recording
C14_Reached ==
    /\ IsSome(compiled)
    /\ options.format \in {"mp4", "mov"}
    /\ Len(Unwrap(compiled).filter_parts) > 0
    /\ Unwrap(compiled).audio_output_label = Some("[0:a]")
    /\ AudioMaps(Unwrap(compiled).args) = <<"0:a?">>

---------------------------------------------------------------------------
(* C15: the filter graph is acyclic and its labels are unique              *)

\* the streams of the inputs: screen video and audio, camera video, and the
\* audio of any input
RawInputLabels == {"[0:v]", "[1:v]"} \cup RawAudioLabels

\* the labels the nodes before node i write
WrittenBefore(parts, i) == UNION {{parts[j].outs[k] : k \in 1..Len(parts[j].outs)} : j \in 1..(i - 1)}

\* no label is written twice, by two nodes or by one
UniqueLabels(parts) ==
    /\ \A i \in 1..Len(parts) : \A k, l \in 1..Len(parts[i].outs) :
           parts[i].outs[k] = parts[i].outs[l] => k = l
    /\ \A i \in 1..Len(parts) : \A k \in 1..Len(parts[i].outs) :
           parts[i].outs[k] \notin WrittenBefore(parts, i)

\* every label a node reads is an input stream or was written before
ReadsEarlierLabels(parts) ==
    \A i \in 1..Len(parts) : \A k \in 1..Len(parts[i].ins) :
        \/ parts[i].ins[k] \in RawInputLabels
        \/ parts[i].ins[k] \in WrittenBefore(parts, i)

\* C15: in every -filter_complex graph build_ffmpeg_args emits, no output
\* label is defined by more than one node, and every input label of a node
\* is a raw input stream or the output label of an earlier node.
C15_GraphAcyclicUniqueLabels ==
    (IsSome(compiled) /\ Has(Unwrap(compiled).args, "-filter_complex")) =>
        /\ Has(Unwrap(compiled).args, GraphText(Unwrap(compiled).filter_parts))
        /\ UniqueLabels(Unwrap(compiled).filter_parts)
        /\ ReadsEarlierLabels(Unwrap(compiled).filter_parts)

\* a graph with two video pieces, a camera, a microphone on input 2 and
\* screen audio, ducked and mixed
C15_Reached ==
    /\ IsSome(compiled)
    /\ options.format = "mp4"
    /\ Has(Unwrap(compiled).args, "-filter_complex")
    /\ WritesLabel(Unwrap(compiled).filter_parts, "[vconcat]")
    /\ WritesLabel(Unwrap(compiled).filter_parts, "[vwithcam]")
    /\ WritesLabel(Unwrap(compiled).filter_parts, "[aout]")
    /\ \E i \in 1..Len(Unwrap(compiled).filter_parts) :
           Unwrap(compiled).filter_parts[i].ins = <<"[2:a]">>

---------------------------------------------------------------------------
(* C16: the order of the argument vector                                   *)

\* the indices of the -i options
InputIndices(args) == {i \in 1..Len(args) : args[i] = "-i"}

\* the options that choose codecs, filters and maps
CodecAndMapOptions ==
    {"-c:v", "-c:a", "-b:v", "-b:a", "-crf", "-preset", "-pix_fmt", "-profile:v",
     "-allow_sw", "-r", "-vn", "-an", "-vf", "-filter_complex", "-map"}

\* the paths of the inputs, in the order of the contract
InputPaths(p) ==
    <<p.screen_video_path>> \o p.camera_video_path \o p.microphone_audio_path

\* C16: build_ffmpeg_args returns a vector for every project and options,
\* in the order of the contract: -ss/-to come before the first -i; the -i
\* options are consecutive pairs that name the screen recording, then the
\* camera, then the microphone; codec, filter and map options come after
\* all inputs; the last two tokens are -y and the output path.
C16_ArgumentOrder ==
    IsSome(compiled) =>
        LET args   == Unwrap(compiled).args
            first  == FirstIndex(args, "-i")
            inputs == InputPaths(project)
            last   == first + 2 * Len(inputs) - 1
        IN  /\ first <= Len(args)
            /\ \A i \in 1..Len(args) : args[i] \in {"-ss", "-to"} => i < first
            /\ InputIndices(args) = {first + 2 * (k - 1) : k \in 1..Len(inputs)}
            /\ \A k \in 1..Len(inputs) : args[first + 2 * (k - 1) + 1] = inputs[k]
            /\ \A i \in 1..Len(args) : args[i] \in CodecAndMapOptions => i > last
            /\ \E i \in 1..Len(args) : args[i] \in CodecAndMapOptions
            /\ Len(args) >= last + 2
            /\ args[Len(args) - 1] = "-y"
            /\ args[Len(args)] = OutputPath(options)

\* a vector with the three inputs
C16_Reached ==
    /\ IsSome(compiled)
    /\ IsSome(project.camera_video_path)
    /\ IsSome(project.microphone_audio_path)
    /\ SubSeq(Unwrap(compiled).args, 1, 6)
           = <<"-i", "screen.mp4", "-i", "camera.mp4", "-i", "mic.wav">>
    /\ Unwrap(compiled).args[Len(Unwrap(compiled).args) - 1] = "-y"

---------------------------------------------------------------------------
(* C11: an export without an enabled segment is rejected                   *)

NoEnabledSegment(p) == \A i \in 1..Len(p.edits.segments) : ~p.edits.segments[i].enabled

\* the files the project references all exist
ReferencedFilesExist(p, existing) ==
    /\ p.screen_video_path \in existing
    /\ IsSome(p.camera_video_path) => Unwrap(p.camera_video_path) \in existing
    /\ IsSome(p.microphone_audio_path) => Unwrap(p.microphone_audio_path) \in existing

Emitted(name) == \E i \in 1..Len(events) : events[i].name = name

\* C11: while export_project runs on a project without an enabled segment,
\* no argument vector is built, ffmpeg is not spawned, no job is registered
\* and export-started is not emitted; the call ends at the validation, and
\* returns the error validate_export_inputs returned ("No enabled timeline
\* segments to export" when the files the project references exist).
C11_NoEnabledSegmentRejected ==
    NoEnabledSegment(project) =>
        /\ export_call.args = None
        /\ ~export_call.spawned
        /\ export_jobs = {}
        /\ ~Emitted("export-started")
        /\ export_call.pc \in {"idle", "validate", "returned"}
        /\ IsSome(export_call.validation) =>
               /\ export_call.pc = "returned"
               /\ export_call.result = Some(Err(Unwrap(export_call.validation)))
               /\ ReferencedFilesExist(project, files) =>
                      Unwrap(export_call.validation)
                          = "No enabled timeline segments to export"

\* the call returned the error for a project whose segments are all disabled
C11_Reached ==
    /\ Len(project.edits.segments) > 0
    /\ NoEnabledSegment(project)
    /\ export_call.pc = "returned"
    /\ export_call.result = Some(Err("No enabled timeline segments to export"))
    /\ export_call.args = None
    /\ export_jobs = {}
    /\ events = <<>>

---------------------------------------------------------------------------
(* C12: validate_export_inputs                                             *)

\* the checks of the contract, in order, as (passes, error when it fails)
ExportChecks(p, o, existing, probe) ==
    <<[passes |-> p.screen_video_path \in existing,
       error  |-> "Screen recording file does not exist"],
      [passes |-> IsSome(p.camera_video_path) => Unwrap(p.camera_video_path) \in existing,
       error  |-> "Camera recording file does not exist"],
      [passes |-> IsSome(p.microphone_audio_path)
                      => Unwrap(p.microphone_audio_path) \in existing,
       error  |-> "Microphone recording file does not exist"],
      [passes |-> \E i \in 1..Len(p.edits.segments) : p.edits.segments[i].enabled,
       error  |-> "No enabled timeline segments to export"],
      [passes |-> o.format \in {"wav", "mp3"}
                      => \/ probe = "yes"
                         \/ /\ IsSome(p.microphone_audio_path)
                            /\ Unwrap(p.microphone_audio_path) \in existing,
       error  |-> "Audio export requires at least one audio source (system or microphone)"]>>

\* C12: validate_export_inputs returns Ok exactly when the screen file
\* exists, the camera file exists when referenced, the microphone file
\* exists when referenced, a segment is enabled and, for Wav and Mp3, the
\* screen file has an audio stream or the microphone file exists; otherwise
\* it returns the error of the first check that fails, in that order.
C12_ValidationFirstFailingCheck ==
    IsSome(export_call.validation) =>
        LET checks  == ExportChecks(project, options, files, Unwrap(export_call.probe))
            failing == {i \in 1..Len(checks) : ~checks[i].passes}
        IN  IF failing = {} THEN Unwrap(export_call.validation) = "ok"
            ELSE Unwrap(export_call.validation) = checks[FirstOf(failing)].error

\* a Wav or Mp3 export of a project whose files exist and that has an
\* enabled segment is refused: the probe found no audio stream in the screen
\* file and the project has no microphone
C12_Reached ==
    /\ IsSome(export_call.validation)
    /\ options.format \in {"wav", "mp3"}
    /\ Unwrap(export_call.probe) = "no"
    /\ ReferencedFilesExist(project, files)
    /\ ~NoEnabledSegment(project)
    /\ Unwrap(export_call.validation)
           = "Audio export requires at least one audio source (system or microphone)"
    /\ export_call.result = Some(Err(Unwrap(export_call.validation)))

---------------------------------------------------------------------------
(* Reading the text of labels and filters                                  *)

StartsWith(s, prefix) ==
    Len(s) >= Len(prefix) /\ SubSeq(s, 1, Len(prefix)) = prefix

\* the positions at which `part` occurs in s
Occurrences(s, part) ==
    {i \in 1..(Len(s) - Len(part) + 1) : SubSeq(s, i, i + Len(part) - 1) = part}

Occurs(s, part) == Occurrences(s, part) # {}

\* the argument that follows the first `option`
ValueOf(args, option) == args[FirstIndex(args, option) + 1]

---------------------------------------------------------------------------
(* C21: the final scale of an Mp4/Mov export                               *)

\* the nodes of the video chain: they write a label that starts with "[v"
VideoNodes(parts) ==
    {i \in 1..Len(parts) : Len(parts[i].outs) = 1 /\ StartsWith(parts[i].outs[1], "[v")}

\* the label the video chain has reached after the nodes of `parts`
AccumulatedVideoLabel(parts) ==
    IF VideoNodes(parts) = {} THEN "[0:v]"
    ELSE parts[CHOOSE i \in VideoNodes(parts) : \A j \in VideoNodes(parts) : j <= i].outs[1]

\* C21: in every Mp4/Mov export exactly one of -filter_complex and -vf is in
\* the arguments.  When a filter fragment was built, the graph ends with a
\* node that scales the accumulated video label to -2:targetHeight into
\* [vout], and [vout] is the video mapped; when none was built, the
\* arguments hold -vf scale=-2:targetHeight and -map 0:v.
C21_OneFinalScale ==
    (IsSome(compiled) /\ options.format \in {"mp4", "mov"}) =>
        LET c     == Unwrap(compiled)
            parts == c.filter_parts
            scale == "scale=-2:" \o ToString(height(options.resolution))
        IN  /\ Has(c.args, "-filter_complex") # Has(c.args, "-vf")
            /\ Len(parts) > 0 =>
                   /\ ValueOf(c.args, "-filter_complex") = GraphText(parts)
                   /\ parts[Len(parts)] =
                          Node(<<AccumulatedVideoLabel(SubSeq(parts, 1, Len(parts) - 1))>>,
                               scale, <<"[vout]">>)
                   /\ MapValues(c.args)[1] = "[vout]"
            /\ Len(parts) = 0 =>
                   /\ ValueOf(c.args, "-vf") = scale
                   /\ MapValues(c.args)[1] = "0:v"

\* a graph whose video chain has pieces, a camera overlay and audio nodes
\* after them: the final node scales [vwithcam]
C21_Reached ==
    /\ IsSome(compiled)
    /\ options.format \in {"mp4", "mov"}
    /\ Len(Unwrap(compiled).filter_parts) > 2
    /\ WritesLabel(Unwrap(compiled).filter_parts, "[vconcat]")
    /\ WritesLabel(Unwrap(compiled).filter_parts, "[amicclean]")
    /\ Unwrap(compiled).filter_parts[Len(Unwrap(compiled).filter_parts)].ins
           = <<"[vwithcam]">>
    /\ Unwrap(compiled).filter_parts[Len(Unwrap(compiled).filter_parts)].outs
           = <<"[vout]">>

---------------------------------------------------------------------------
(* C22: audio and video cover the same source ranges                       *)

\* the text both chains share for the range of a piece
RangeText(piece) == "trim=start=" \o Fmt6(piece.start) \o ":end=" \o Fmt6(piece.end)

\* the graph trims the screen video to piece i
VideoTrims(parts, piece, i) ==
    \E k \in 1..Len(parts) :
        /\ parts[k].outs = <<"[vpiece" \o ToString(i - 1) \o "]">>
        /\ StartsWith(parts[k].filter, RangeText(piece))

\* the graph trims the audio source labelled with `prefix` to piece i
AudioTrims(parts, piece, prefix, i) ==
    \E k \in 1..Len(parts) :
        /\ parts[k].outs = <<"[" \o prefix \o ToString(i - 1) \o "]">>
        /\ StartsWith(parts[k].filter, "a" \o RangeText(piece))

\* the prefixes of the audio sources of an export
AudioSourcePrefixes(p, screen_has_audio) ==
    (IF screen_has_audio THEN {"ascreen"} ELSE {})
    \cup (IF IsSome(p.microphone_audio_path) THEN {"amicpiece"} ELSE {})

\* C22: in every Mp4/Mov export whose video chain trims the screen video to
\* the piece list, every audio source is trimmed to the same pieces: one
\* atrim per piece with the start and end of the video trim of that piece.
C22_AudioTrimsLikeVideo ==
    (IsSome(compiled) /\ options.format \in {"mp4", "mov"}) =>
        LET c == Unwrap(compiled)
        IN  (\A i \in 1..Len(c.timeline_pieces) :
                 VideoTrims(c.filter_parts, c.timeline_pieces[i], i))
            => \A prefix \in AudioSourcePrefixes(project, c.screen_has_audio) :
                   \A i \in 1..Len(c.timeline_pieces) :
                       AudioTrims(c.filter_parts, c.timeline_pieces[i], prefix, i)

\* the single enabled segment [0, 15] of a 20 s recording that has screen
\* audio: the video is trimmed to [0, 15] and the audio mapped is the whole
\* stream 0:a
C22_Reached ==
    /\ IsSome(compiled)
    /\ options.format \in {"mp4", "mov"}
    /\ EnabledRanges(project) = <<<<0, Micro(15)>>>>
    /\ NoSpeedOrZoom(project)
    /\ NoCameraNoMicrophone(project)
    /\ Unwrap(compiled).screen_has_audio
    /\ VideoTrims(Unwrap(compiled).filter_parts,
                  [start |-> 0, end |-> Micro(15), speed |-> Micro(1), zoom |-> None], 1)
    /\ ~\E k \in 1..Len(Unwrap(compiled).filter_parts) :
           Occurs(Unwrap(compiled).filter_parts[k].filter, "atrim")
    /\ AudioMaps(Unwrap(compiled).args) = <<"0:a?">>

---------------------------------------------------------------------------
(* C23: the audio timeline of a piece list                                 *)

\* one piece that starts at about 0 and plays at about the speed 1.0
SinglePlainPiece(pieces) ==
    /\ Len(pieces) = 1
    /\ pieces[1].start <= 1000
    /\ Abs(pieces[1].speed - Micro(1)) < 10000

\* filters[i] trims the input to piece i and changes its tempo when the
\* speed of the piece is not a no-op
TrimsPiece(filters, pieces, input_label, i) ==
    /\ filters[i].ins = <<input_label>>
    /\ StartsWith(filters[i].filter, "a" \o RangeText(pieces[i])
                                         \o ",asetpts=PTS-STARTPTS")
    /\ Occurs(filters[i].filter, "atempo=") <=> ~AtempoIsNoop(pieces[i].speed)
    /\ Len(filters[i].outs) = 1

C23_LatePieceReached ==
    /\ IsSome(timeline)
    /\ Len(Unwrap(timeline).pieces) = 1
    /\ Unwrap(timeline).pieces[1].start = 1500
    /\ Len(Unwrap(timeline).audio.filters) = 1

---------------------------------------------------------------------------
(* C24: ducking and mixing of the two audio sources                        *)

\* the index of the node that writes `label` (0 when there is none)
WriterOf(parts, label) ==
    IF WritesLabel(parts, label)
    THEN CHOOSE k \in 1..Len(parts) : parts[k].outs = <<label>>
    ELSE 0

\* a volume the gain step does not skip
GainApplies(volume) ==
    LET gain == IF volume < 0 THEN 0 ELSE IF volume > 2000000 THEN 2000000 ELSE volume
    IN  ~(gain - 1000000 < 10000 /\ 1000000 - gain < 10000)

\* the nodes whose filter is a sidechaincompress or an amix
MixNodes(parts) ==
    {k \in 1..Len(parts) : Occurs(parts[k].filter, "sidechaincompress")
                           \/ Occurs(parts[k].filter, "amix")}

\* the output of the microphone chain: high-passed into [amicclean], then
\* the gain (when it applies) reading [amicclean] into [amicvol]
MicrophoneChainOutput(p, parts) ==
    IF GainApplies(p.edits.audio_mix.microphone_volume) THEN "[amicvol]" ELSE "[amicclean]"

MicrophoneChainBuilt(p, parts) ==
    /\ WriterOf(parts, "[amicclean]") > 0
    /\ parts[WriterOf(parts, "[amicclean]")].filter = "highpass=f=80"
    /\ GainApplies(p.edits.audio_mix.microphone_volume) =>
           /\ WriterOf(parts, "[amicvol]") > WriterOf(parts, "[amicclean]")
           /\ parts[WriterOf(parts, "[amicvol]")].ins = <<"[amicclean]">>
           /\ StartsWith(parts[WriterOf(parts, "[amicvol]")].filter, "volume=")
    /\ ~GainApplies(p.edits.audio_mix.microphone_volume) =>
           WriterOf(parts, "[amicvol]") = 0

\* the output of the system audio chain: its gain when it applies, else the
\* output of its timeline filter, else the stream itself
ScreenChainOutput(p, parts) ==
    IF GainApplies(p.edits.audio_mix.system_volume) THEN "[ascreenvol]"
    ELSE IF WritesLabel(parts, "[ascreenout]") THEN "[ascreenout]"
    ELSE IF WritesLabel(parts, "[ascreen0]") THEN "[ascreen0]"
    ELSE "[0:a]"

\* C24: with screen audio and a microphone, the microphone is high-passed
\* and then gain-adjusted, a sidechaincompress node that reads the system
\* audio and the microphone writes [aducked], the next node is the amix of
\* [aducked] and the microphone into [aout], and [aout] is the final audio
\* label.  With one source alone the final audio label is the output of
\* that source's chain and the graph holds no sidechaincompress and no amix.
\* With no source there is no audio label.
C24_DuckAndMix ==
    (IsSome(compiled) /\ options.format \in {"mp4", "mov", "wav", "mp3"}) =>
        LET c      == Unwrap(compiled)
            parts  == c.filter_parts
            screen == c.screen_has_audio
            mic    == IsSome(project.microphone_audio_path)
            duck   == WriterOf(parts, "[aducked]")
        IN  /\ mic => MicrophoneChainBuilt(project, parts)
            /\ (screen /\ mic) =>
                   /\ duck > WriterOf(parts, MicrophoneChainOutput(project, parts))
                   /\ parts[duck] =
                          Node(<<ScreenChainOutput(project, parts),
                                 MicrophoneChainOutput(project, parts)>>,
                               "sidechaincompress=threshold=0.025:ratio=8:attack=20:release=300",
                               <<"[aducked]">>)
                   /\ parts[duck + 1] =
                          Node(<<"[aducked]", MicrophoneChainOutput(project, parts)>>,
                               "amix=inputs=2:duration=longest:dropout_transition=0",
                               <<"[aout]">>)
                   /\ MixNodes(parts) = {duck, duck + 1}
                   /\ c.audio_output_label = Some("[aout]")
            /\ (screen /\ ~mic) =>
                   /\ c.audio_output_label = Some(ScreenChainOutput(project, parts))
                   /\ MixNodes(parts) = {}
            /\ (~screen /\ mic) =>
                   /\ c.audio_output_label = Some(MicrophoneChainOutput(project, parts))
                   /\ MixNodes(parts) = {}
            /\ (~screen /\ ~mic) =>
                   /\ c.audio_output_label = None
                   /\ MixNodes(parts) = {}

\* both sources, both gains applied, the system audio cut into two pieces
C24_Reached ==
    /\ IsSome(compiled)
    /\ options.format \in {"mp4", "mov", "wav", "mp3"}
    /\ Unwrap(compiled).screen_has_audio
    /\ WritesLabel(Unwrap(compiled).filter_parts, "[ascreenout]")
    /\ WritesLabel(Unwrap(compiled).filter_parts, "[ascreenvol]")
    /\ WritesLabel(Unwrap(compiled).filter_parts, "[amicvol]")
    /\ WritesLabel(Unwrap(compiled).filter_parts, "[aducked]")
    /\ Unwrap(compiled).audio_output_label = Some("[aout]")

\* the microphone alone: its chain is the output
C24_MicrophoneAloneReached ==
    /\ IsSome(compiled)
    /\ options.format \in {"mp4", "mov", "wav", "mp3"}
    /\ ~Unwrap(compiled).screen_has_audio
    /\ Unwrap(compiled).audio_output_label = Some("[amicclean]")

---------------------------------------------------------------------------
(* C25: the GIF filter                                                     *)

\* the filter of a GIF export: the value of -filter_complex or of -vf
GifFilterText(args) ==
    IF Has(args, "-filter_complex") THEN ValueOf(args, "-filter_complex")
    ELSE ValueOf(args, "-vf")

\* the smaller of two numbers
Least(a, b) == IF a < b THEN a ELSE b

\* C25: the arguments of a GIF export hold no audio codec, no audio bitrate
\* and no map; exactly one of -filter_complex (camera) and -vf (no camera)
\* holds the filter; the filter sets fps to min(frameRate, 30), scales to
\* the height min(targetHeight, 720), and holds one palettegen step and,
\* after it, one paletteuse step.
C25_GifCapsAndPalette ==
    (IsSome(compiled) /\ options.format = "gif") =>
        LET args == Unwrap(compiled).args
            text == GifFilterText(args)
            target == CASE options.resolution = "720p"  -> 720
                        [] options.resolution = "1080p" -> 1080
                        [] options.resolution = "4k"    -> 2160
        IN  /\ ~Has(args, "-c:a") /\ ~Has(args, "-b:a") /\ ~Has(args, "-map")
            /\ Has(args, "-filter_complex") <=> IsSome(project.camera_video_path)
            /\ Has(args, "-vf") <=> ~IsSome(project.camera_video_path)
            /\ Cardinality(Occurrences(text, "fps=")) = 1
            /\ Occurs(text, "fps=" \o ToString(Least(options.frame_rate, 30))
                            \o ",scale=-1:" \o ToString(Least(target, 720))
                            \o ":flags=lanczos,split[s0][s1];")
            /\ Cardinality(Occurrences(text, "palettegen")) = 1
            /\ Cardinality(Occurrences(text, "paletteuse")) = 1
            /\ \A g \in Occurrences(text, "palettegen") :
                   \A u \in Occurrences(text, "paletteuse") : g < u
            /\ Occurs(text, "[s0]palettegen=stats_mode=diff[p];[s1][p]paletteuse=dither=bayer")

\* a GIF of 60 frames per second at 1080p with a camera overlay: capped to
\* 30 and 720
C25_Reached ==
    /\ IsSome(compiled)
    /\ options.format = "gif"
    /\ options.frame_rate = 60
    /\ IsSome(project.camera_video_path)
    /\ Occurs(GifFilterText(Unwrap(compiled).args), "fps=30,scale=-1:720:")

\* a GIF of 24 frames per second without a camera: the rate is kept
C25_SlowGifReached ==
    /\ IsSome(compiled)
    /\ options.format = "gif"
    /\ options.frame_rate = 24
    /\ ~IsSome(project.camera_video_path)
    /\ Occurs(GifFilterText(Unwrap(compiled).args), "fps=24,scale=-1:720:")

---------------------------------------------------------------------------
(* C26: the cuts of the EDL in every format that produces video            *)

\* instants of the recording: its two ends, just inside them, and the
\* middles of the ranges the segments are made of
Instants == {0, 250, 2500000, 10000000, 17500000, 20000000 - 250, 20000000}

\* an instant of the recording that no enabled segment holds
CutOut(p) ==
    {t \in Instants :
        /\ t <= p.duration
        /\ ~\E i \in 1..Len(EnabledRanges(p)) :
               EnabledRanges(p)[i][1] <= t /\ t <= EnabledRanges(p)[i][2]}

\* C26: in an Mp4, Mov or Gif export that passes validation, of a project in
\* which some part of the recording is in no enabled segment, the arguments
\* seek to the single enabled segment (-ss and -to before the input) or the
\* graph trims the screen video to every piece, so that no disabled range
\* is exported.
C26_CutsAreApplied ==
    (IsSome(compiled) /\ options.format \in {"mp4", "mov", "gif"}
        /\ Unwrap(compiled).validation = "ok" /\ CutOut(project) # {}) =>
        LET c == Unwrap(compiled)
        IN  \/ /\ Len(EnabledRanges(project)) = 1
               /\ HasBeforeInput(c.args, "-ss", Display(EnabledRanges(project)[1][1]))
               /\ HasBeforeInput(c.args, "-to", Display(EnabledRanges(project)[1][2]))
            \/ /\ Len(c.timeline_pieces) > 0
               /\ \A i \in 1..Len(c.timeline_pieces) :
                      VideoTrims(c.filter_parts, c.timeline_pieces[i], i)

\* a GIF export of the single enabled segment [5, 15] of a 20 s recording:
\* no seek and no trim, the filter reads the whole screen video
C26_Reached ==
    /\ IsSome(compiled)
    /\ options.format = "gif"
    /\ Unwrap(compiled).validation = "ok"
    /\ EnabledRanges(project) = <<<<Micro(5), Micro(15)>>>>
    /\ NoSpeedOrZoom(project)
    /\ NoCameraNoMicrophone(project)
    /\ ~Has(Unwrap(compiled).args, "-ss")
    /\ ~Occurs(GifFilterText(Unwrap(compiled).args), "trim=")

---------------------------------------------------------------------------
(* C27: the terminal events of an export job                               *)

TerminalEvents == {"export-complete", "export-error", "export-cancelled"}

\* the terminal events emitted for a job, oldest first
TerminalEventsOf(j) == SelectSeq(EventsOf(j), LAMBDA e : e.name \in TerminalEvents)

\* a cancel_export call found the job in the registry and removed it
CancelRemoved(j) ==
    \E r \in cancel_results[j] : r # Err("Export job not found")

\* C27: whatever the interleaving of the end of ffmpeg, cancel_export,
\* list_active_export_jobs and cleanup_active_exports, at most one of
\* export-complete, export-error and export-cancelled is emitted for a job,
\* and export-complete is never emitted for a job that cancel_export removed.
C27_OneTerminalEvent ==
    \A j \in Jobs :
        /\ Len(TerminalEventsOf(j)) <= 1
        /\ CancelRemoved(j) =>
               ~\E i \in 1..Len(events) : events[i] = Event("export-complete", j)

\* a job was cancelled while its process ran and its listener has handled
\* the end of the process since; another job has completed
C27_Reached ==
    \E j, k \in Jobs :
        /\ j # k
        /\ OkUnit \in cancel_results[j]
        /\ processes[j] = "terminated"
        /\ listeners[j] = "done"
        /\ TerminalEventsOf(j) = <<Event("export-cancelled", j)>>
        /\ TerminalEventsOf(k) = <<Event("export-complete", k)>>

---------------------------------------------------------------------------
(* C28: the end of ffmpeg is reported                                      *)

\* exactly one terminal event was emitted for the job, the one of its exit
\* code
ExitReported(j) ==
    \/ /\ processes[j] = "exit 0"
       /\ TerminalEventsOf(j) = <<Event("export-complete", j)>>
    \/ /\ processes[j] = "exit 1"
       /\ TerminalEventsOf(j) = <<Event("export-error", j)>>

\* C28: when the ffmpeg process of a registered job ends by itself and
\* cancel_export is never called for the job, then export-complete (exit
\* code 0) or export-error (another exit code), and only that one, is
\* eventually emitted for the job, whatever other commands run in between.
C28_ExitIsReported ==
    \A j \in Jobs :
        ([](cancel_results[j] = {}))
            => ((processes[j] \in {"exit 0", "exit 1"}) ~> ExitReported(j))

\* ffmpeg exited with code 0, list_active_export_jobs pruned the job before
\* the listener handled the end, and the listener has finished without a
\* terminal event
C28_Reached ==
    \E j \in Jobs :
        /\ processes[j] = "exit 0"
        /\ cancel_results[j] = {}
        /\ listeners[j] = "done"
        /\ j \notin export_jobs
        /\ TerminalEventsOf(j) = <<>>
        /\ list_call.pc = "idle"
        /\ IsSome(list_call.result)

---------------------------------------------------------------------------
(* C29: active_export_job_ids                                              *)

\* the elements of a Vec
Elements(s) == {s[i] : i \in 1..Len(s)}

\* ascending, without repetition
Ascending(ids) ==
    \A a, b \in 1..Len(ids) : a < b => JobNumber(ids[a]) < JobNumber(ids[b])

\* the loop of the call: every registered job is active or stale, a job
\* whose process runs is active, a stale job's process does not run
ListChecked ==
    (list_call.pc = "idle" /\ list_call'.pc = "checked") =>
        /\ Elements(list_call'.active_job_ids) \cup Elements(list_call'.stale_job_ids)
               = export_jobs
        /\ Elements(list_call'.active_job_ids) \cap Elements(list_call'.stale_job_ids)
               = {}
        /\ \A j \in export_jobs :
               processes[j] = "running" => j \in Elements(list_call'.active_job_ids)
        /\ \A j \in Elements(list_call'.stale_job_ids) : processes[j] # "running"

\* the end of the call: the active ids are returned in ascending order, the
\* stale ids leave the registry, no other entry changes
ListPruned ==
    (list_call.pc = "checked" /\ list_call'.pc = "idle") =>
        /\ IsSome(list_call'.result)
        /\ Elements(Unwrap(list_call'.result)) = Elements(list_call.active_job_ids)
        /\ Len(Unwrap(list_call'.result)) = Len(list_call.active_job_ids)
        /\ Ascending(Unwrap(list_call'.result))
        /\ export_jobs' = export_jobs \ Elements(list_call.stale_job_ids)

\* C29: active_export_job_ids returns, in ascending order, exactly the ids
\* of the registered jobs whose process runs or whose check failed; it
\* removes from the registry the jobs whose process no longer runs and
\* leaves the entries of the other jobs as they are.
C29_ListReturnsRunningJobs == [][ListChecked /\ ListPruned]_vars

\* two jobs were registered; the call pruned the first, whose process had
\* exited and whose listener had not yet run, and returned the second
C29_Reached ==
    /\ Cardinality(Jobs) >= 2
    /\ list_call.pc = "idle"
    /\ list_call.result = Some(<<JobName(2)>>)
    /\ processes[JobName(1)] = "exit 0"
    /\ listeners[JobName(1)] = "listening"
    /\ JobName(1) \notin export_jobs
    /\ JobName(2) \in export_jobs
    /\ processes[JobName(2)] = "running"

\* both jobs run and the call returned them in ascending order
C29_SortedReached ==
    /\ list_call.pc = "idle"
    /\ list_call.result = Some(<<JobName(1), JobName(2)>>)
    /\ export_jobs = {JobName(1), JobName(2)}

---------------------------------------------------------------------------
(* C30: get_pending_finalization                                           *)

\* the screen video and every listed segment of a context are on disk
ArtifactsExist(stop_result) ==
    /\ stop_result.screen_video_path \in files
    /\ \A i \in 1..Len(stop_result.screen_segment_paths) :
           stop_result.screen_segment_paths[i] \in files

\* the entries of all project ids but one are the same before and after
OthersKept(project_id) ==
    \A k \in ProjectIds \ {project_id} :
        /\ k \in DOMAIN pending_finalizations <=> k \in DOMAIN pending_finalizations'
        /\ k \in DOMAIN pending_finalizations =>
               pending_finalizations'[k] = pending_finalizations[k]

\* a call starts: it goes on to the artifacts exactly when the entry is
\* stored; without an entry it returns Ok(None), and false to
\* has_pending_finalization
CallStarts ==
    (pending_call.pc = "idle" /\ pending_call' # pending_call) =>
        /\ pending_call'.pc = "checking"
               <=> pending_call'.project_id \in DOMAIN pending_finalizations
        /\ pending_call'.pc = "checking" =>
               pending_call'.stop_result
                   = Some(pending_finalizations[pending_call'.project_id])
        /\ pending_call'.pc # "checking" =>
               /\ pending_call'.pc = "idle"
               /\ pending_call'.result = Some([ok |-> TRUE, value |-> <<>>])
               /\ pending_call'.op = "has" => pending_call'.has = Some(FALSE)
        /\ pending_finalizations' = pending_finalizations

\* the artifacts are checked: with all of them the stored context is
\* returned and stays stored; with one missing the call goes on to clear
\* the entry; the only other return is the error of a failed check
ArtifactsChecked ==
    (pending_call.pc = "checking" /\ pending_call'.pc # "checking") =>
        /\ pending_finalizations' = pending_finalizations
        /\ \/ /\ pending_call'.pc = "idle"
              /\ IsSome(pending_call'.result)
              /\ ~Unwrap(pending_call'.result).ok
           \/ /\ ArtifactsExist(Unwrap(pending_call.stop_result))
              /\ pending_call'.pc = "idle"
              /\ pending_call'.result
                     = Some([ok |-> TRUE, value |-> pending_call.stop_result])
              /\ pending_call'.op = "has" => pending_call'.has = Some(TRUE)
           \/ /\ ~ArtifactsExist(Unwrap(pending_call.stop_result))
              /\ pending_call'.pc = "clearing"

\* the stale entry is removed and None is returned
StaleCleared ==
    (pending_call.pc = "clearing" /\ pending_call'.pc # "clearing") =>
        /\ pending_call'.pc = "idle"
        /\ pending_call'.result = Some([ok |-> TRUE, value |-> <<>>])
        /\ pending_call'.op = "has" => pending_call'.has = Some(FALSE)
        /\ pending_call.project_id \notin DOMAIN pending_finalizations'
        /\ OthersKept(pending_call.project_id)

\* clear_pending_finalization removes the entry of its project id only
Cleared ==
    \A project_id \in ProjectIds :
        ClearPendingFinalization(project_id) =>
            /\ project_id \notin DOMAIN pending_finalizations'
            /\ OthersKept(project_id)

\* C30: get_pending_finalization returns the stored context and leaves it
\* stored when the screen video and every listed segment exist; when one
\* of them is missing it returns None and removes the entry; once the entry
\* is gone, by that or by clear_pending_finalization, get_pending_finalization
\* returns None and has_pending_finalization returns false.
C30_PendingFinalization ==
    [][CallStarts /\ ArtifactsChecked /\ StaleCleared /\ Cleared]_vars

\* has_pending_finalization found a context whose screen video exists and
\* whose only segment is missing: it cleared the entry and returned false,
\* and the entry of the other project is still stored
C30_Reached ==
    /\ pending_call.pc = "idle"
    /\ pending_call.op = "has"
    /\ pending_call.project_id = "stale-project"
    /\ IsSome(pending_call.stop_result)
    /\ Unwrap(pending_call.stop_result).screen_segment_paths = <<"screen_part1.mp4">>
    /\ files = {"screen.mp4"}
    /\ pending_call.has = Some(FALSE)
    /\ DOMAIN pending_finalizations = {"retry-project"}

\* get_pending_finalization returned the stored context of two segments
C30_StoredReached ==
    /\ pending_call.pc = "idle"
    /\ pending_call.op = "get"
    /\ IsSome(pending_call.result)
    /\ Unwrap(pending_call.result).ok
    /\ IsSome(Unwrap(pending_call.result).value)
    /\ Len(Unwrap(Unwrap(pending_call.result).value).screen_segment_paths) = 2
    /\ pending_call.project_id \in DOMAIN pending_finalizations


---------------------------------------------------------------------------
(* The recorder: start_recording, pause_recording, resume_recording and    *)
(* stop_recording on the sessions of RecorderState. Each call holds the    *)
(* recorder lock from its first line to its return, so a call is one step. *)
(* What ScreenCaptureKit and the file system answer is an input of the     *)
(* call: failure names the first step that fails, "none" when none does.   *)
(* The options of a session (source id, display ordinal) are not followed. *)

\* the clock does not go beyond this, and no session beyond this segment
MaxClock == 1

MaxSegmentIndex == 2

\* state_guard.recordings_dir.join(&project_id)
ProjectDir(project_id) == "recordings/" \o project_id

\* project_dir.join("screen.mp4")
ScreenVideoPath(project_id) == ProjectDir(project_id) \o "/screen.mp4"

\* project_dir.join(format!("screen_part{}.mp4", session.segment_index))
SegmentPath(project_id, segment_index) ==
    ProjectDir(project_id) \o "/screen_part" \o ToString(segment_index) \o ".mp4"

\* the RecordingSession that start_recording stores
NewSession(project_id, now) ==
    [project_id |-> project_id,
     state |-> "Recording",
     screen_video_path |-> ScreenVideoPath(project_id),
     segment_index |-> 0,
     screen_segments |-> <<ScreenVideoPath(project_id)>>,
     current_segment_path |-> ScreenVideoPath(project_id),
     active_duration_ms |-> 0,
     last_resume_instant |-> Some(now),
     stream |-> Some("SCStream"),
     recording_output |-> Some("SCRecordingOutput")]

\* sessions.insert(project_id, session)
InsertSession(map, session) ==
    [k \in DOMAIN map \cup {session.project_id} |->
        IF k = session.project_id THEN session ELSE map[k]]

\* sessions.get(project_id).cloned(), were a session clonable
SessionOf(map, project_id) ==
    IF project_id \in DOMAIN map THEN Some(map[project_id]) ELSE None

\* if let Some(last_resume) = session.last_resume_instant.take() { .. }
TakeLastResume(session, now) ==
    IF IsSome(session.last_resume_instant)
    THEN [session EXCEPT
            !.active_duration_ms = @ + (now - Unwrap(session.last_resume_instant)),
            !.last_resume_instant = None]
    ELSE session

PauseFailures == {"none", "remove_recording_output", "stop_capture", "wait_for_file_ready"}

ResumeFailures == {"none", "shareable_content", "create_recording_output", "start_capture"}

StopFailures == {"none", "stop_capture", "remove_recording_output", "wait_for_file_ready"}

\* pause_recording marking the session Paused although the file of the
\* segment never became ready
PausedSession_PausesOnTimeout(session, failure, now) ==
    IF IsSome(session.stream) /\ failure \in {"remove_recording_output", "stop_capture"}
    THEN session
    ELSE [TakeLastResume(session, now) EXCEPT
            !.state = "Paused", !.stream = None, !.recording_output = None]

\* the session pause_recording leaves in the registry for a session that
\* is Recording
PausedSession(session, failure, now) ==
    IF IsSome(session.stream) /\ failure \in {"remove_recording_output", "stop_capture"}
    THEN session
    ELSE IF failure = "wait_for_file_ready"
    THEN TakeLastResume(session, now)
    ELSE [TakeLastResume(session, now) EXCEPT
            !.state = "Paused", !.stream = None, !.recording_output = None]

\* the return value of pause_recording for a session that is Recording
PauseResult(session, failure) ==
    IF IsSome(session.stream) /\ failure = "remove_recording_output"
    THEN Err("Failed to remove recording output")
    ELSE IF IsSome(session.stream) /\ failure = "stop_capture"
    THEN Err("Failed to stop capture for pause")
    ELSE IF failure = "wait_for_file_ready"
    THEN Err("Timed out waiting for recording file finalization: "
             \o session.current_segment_path)
    ELSE OkUnit

\* the session resume_recording leaves in the registry for a session that
\* is Paused
ResumedSession(session, failure, now) ==
    IF failure # "none"
    THEN [session EXCEPT !.segment_index = @ + 1]
    ELSE [session EXCEPT
            !.segment_index = @ + 1,
            !.state = "Recording",
            !.stream = Some("SCStream"),
            !.recording_output = Some("SCRecordingOutput"),
            !.current_segment_path =
                SegmentPath(session.project_id, session.segment_index + 1),
            !.screen_segments =
                Append(@, SegmentPath(session.project_id, session.segment_index + 1)),
            !.last_resume_instant = Some(now)]

\* the return value of resume_recording for a session that is Paused
ResumeResult(failure) ==
    CASE failure = "shareable_content" -> Err("Failed to get shareable content")
      [] failure = "create_recording_output" -> Err("Failed to create ScreenCaptureKit recording output")
      [] failure = "start_capture" -> Err("Failed to resume capture")
      [] OTHER -> OkUnit

\* Ok(StopRecordingResult) of stop_recording
StopRecordingResult(session) ==
    [project_id |-> session.project_id,
     screen_video_path |-> session.screen_video_path,
     screen_segment_paths |-> session.screen_segments]

\* the return value of stop_recording: the session is taken out of the
\* registry before the capture is stopped
StopResult(map, project_id, failure) ==
    IF project_id \notin DOMAIN map
    THEN Err("Recording session not found: " \o project_id)
    ELSE IF IsSome(map[project_id].stream) /\ failure = "stop_capture"
    THEN Err("Failed to stop capture")
    ELSE IF IsSome(map[project_id].stream) /\ failure = "remove_recording_output"
    THEN Err("Failed to remove recording output")
    ELSE IF IsSome(map[project_id].stream) /\ failure = "wait_for_file_ready"
    THEN Err("Timed out waiting for recording file finalization: "
             \o map[project_id].current_segment_path)
    ELSE OkValue(StopRecordingResult(map[project_id]))

InitRecorder ==
    /\ project = NewProject(<<Segment(<<0, Duration>>, TRUE)>>)
    /\ \E oi \in OptionInputs :
           options = oi[1] /\ target_os = oi[2] /\ oi[1].format = "mp4"
                                               /\ oi[2] = "macos"
    /\ files = {}
    /\ compiled = None
    /\ previous = None
    /\ speed_in = 0
    /\ tempo = None
    /\ timeline = None
    /\ export_call = IdleCall
    /\ export_jobs = {}
    /\ events = <<>>
    /\ NoJobs
    /\ NoPending
    /\ NoRecorder

recorder_frame == <<project, options, target_os, files, compiled, previous, speed_in, tempo, timeline, export_call, export_jobs, events, job_vars, pending_vars, stop_vars>>

\* start_recording: a session is stored when every step succeeded
StartRecording(project_id, failed) ==
    /\ project_id \notin DOMAIN sessions
    /\ sessions' = IF failed THEN sessions
                   ELSE InsertSession(sessions, NewSession(project_id, clock))
    /\ recorder_call' = RecorderCall("start", project_id, None,
                            IF failed THEN Err("Failed to start capture") ELSE OkUnit)
    /\ UNCHANGED <<clock, recorder_frame>>

\* pause_recording(state, project_id)
PauseRecording(project_id, failure) ==
    /\ IF project_id \notin DOMAIN sessions
       THEN /\ recorder_call' = RecorderCall("pause", project_id, None,
                                    Err("Recording session not found: " \o project_id))
            /\ UNCHANGED sessions
       ELSE IF sessions[project_id].state # "Recording"
       THEN /\ recorder_call' = RecorderCall("pause", project_id,
                                    Some(sessions[project_id]),
                                    Err("Recording is not active for project " \o project_id))
            /\ UNCHANGED sessions
       ELSE /\ recorder_call' = RecorderCall("pause", project_id,
                                    Some(sessions[project_id]),
                                    PauseResult(sessions[project_id], failure))
            /\ sessions' = [sessions EXCEPT ![project_id] = PausedSession(@, failure, clock)]
    /\ UNCHANGED <<clock, recorder_frame>>

\* resume_recording(state, project_id)
ResumeRecording(project_id, failure) ==
    /\ IF project_id \notin DOMAIN sessions
       THEN /\ recorder_call' = RecorderCall("resume", project_id, None,
                                    Err("Recording session not found: " \o project_id))
            /\ UNCHANGED sessions
       ELSE IF sessions[project_id].state # "Paused"
       THEN /\ recorder_call' = RecorderCall("resume", project_id,
                                    Some(sessions[project_id]),
                                    Err("Recording is not paused for project " \o project_id))
            /\ UNCHANGED sessions
       ELSE /\ sessions[project_id].segment_index < MaxSegmentIndex
            /\ recorder_call' = RecorderCall("resume", project_id,
                                    Some(sessions[project_id]), ResumeResult(failure))
            /\ sessions' = [sessions EXCEPT ![project_id] = ResumedSession(@, failure, clock)]
    /\ UNCHANGED <<clock, recorder_frame>>

\* stop_recording(state, project_id)
StopRecording(project_id, failure) ==
    /\ recorder_call' = RecorderCall("stop", project_id,
                            SessionOf(sessions, project_id),
                            StopResult(sessions, project_id, failure))
    /\ sessions' = RemoveEntry(sessions, project_id)
    /\ UNCHANGED <<clock, recorder_frame>>

\* time passes
Tick ==
    /\ clock < MaxClock
    /\ clock' = clock + 1
    /\ UNCHANGED <<sessions, recorder_call, recorder_frame>>

NextRecorder ==
    \/ \E project_id \in ProjectIds, failed \in BOOLEAN : StartRecording(project_id, failed)
    \/ \E project_id \in ProjectIds, failure \in PauseFailures : PauseRecording(project_id, failure)
    \/ \E project_id \in ProjectIds, failure \in ResumeFailures : ResumeRecording(project_id, failure)
    \/ \E project_id \in ProjectIds, failure \in StopFailures : StopRecording(project_id, failure)
    \/ Tick

SpecRecorder == InitRecorder /\ [][NextRecorder]_vars


---------------------------------------------------------------------------
(* The commands that end a recording: stop_screen_recording and            *)
(* retry_recording_finalization with finalize_stopped_recording and        *)
(* concatenate_screen_segments. A command is followed from one await to    *)
(* the next; one command is on its way at a time. The time limit of the    *)
(* finalization may strike where the finalization waits: before the        *)
(* segments are concatenated and before the project is saved.              *)

\* the commands that are followed
MaxStopCalls == 2

\* an event of the recording commands with the field of its payload that
\* tells it apart: the state, the status or the message
RecordingEvent(name, project_id, detail) ==
    [name |-> name, project_id |-> project_id, detail |-> detail]

StateChanged(state, project_id) == RecordingEvent("recording-state-changed", project_id, state)

Finalizing(status, project_id) == RecordingEvent("recording-finalizing", project_id, status)

StopFailed(message, project_id) == RecordingEvent("recording-stop-failed", project_id, message)

RetryStatus(status, project_id) ==
    RecordingEvent("recording-finalization-retry-status", project_id, status)

NoContext == "No failed finalization context is available for retry."

TimedOut == "Recording finalization timed out after 120 seconds."

RECURSIVE TrimTextStart(_)
TrimTextStart(text) ==
    IF Len(text) > 0 /\ SubSeq(text, 1, 1) = " "
    THEN TrimTextStart(SubSeq(text, 2, Len(text))) ELSE text

RECURSIVE TrimTextEnd(_)
TrimTextEnd(text) ==
    IF Len(text) > 0 /\ SubSeq(text, Len(text), Len(text)) = " "
    THEN TrimTextEnd(SubSeq(text, 1, Len(text) - 1)) ELSE text

\* project_id.trim().to_string(); the empty string stands for the Err
normalize_project_id_input(project_id) == TrimTextEnd(TrimTextStart(project_id))

\* what the front end may hand in as a project id
RawProjectIds == ProjectIds \cup {"", "  ", " retry-project "}

\* store_pending_finalization keeping nothing
InsertEntry_Skipped(map, stop_result) == map

\* guard.insert(stop_result.project_id.clone(), stop_result.clone())
InsertEntry(map, stop_result) ==
    [k \in DOMAIN map \cup {stop_result.project_id} |->
        IF k = stop_result.project_id THEN stop_result ELSE map[k]]

\* a session that was resumed segment_index times and is in the given state
RecordedSession(project_id, segment_index, state) ==
    [NewSession(project_id, 0) EXCEPT
        !.state = state,
        !.segment_index = segment_index,
        !.screen_segments =
            [i \in 1..(segment_index + 1) |->
                IF i = 1 THEN ScreenVideoPath(project_id)
                ELSE SegmentPath(project_id, i - 1)],
        !.current_segment_path =
            IF segment_index = 0 THEN ScreenVideoPath(project_id)
            ELSE SegmentPath(project_id, segment_index),
        !.last_resume_instant = IF state = "Paused" THEN None ELSE Some(0),
        !.stream = IF state = "Paused" THEN None ELSE Some("SCStream"),
        !.recording_output =
            IF state = "Paused" THEN None ELSE Some("SCRecordingOutput")]

\* the registries the recorder can have built up
SessionMaps ==
    UNION {[ids -> {RecordedSession(id, n, state) :
                        id \in ids, n \in 0..MaxSegmentIndex,
                        state \in {"Recording", "Paused"}}] :
               ids \in SUBSET ProjectIds}

\* every session sits under its own project id
WellKeyed(map) == \A id \in DOMAIN map : map[id].project_id = id

\* the segment files of the sessions
SegmentFiles(map) ==
    UNION {{map[id].screen_segments[i] : i \in 1..Len(map[id].screen_segments)} :
               id \in DOMAIN map}

InitStop ==
    /\ project = NewProject(<<Segment(<<0, Duration>>, TRUE)>>)
    /\ \E oi \in OptionInputs :
           options = oi[1] /\ target_os = oi[2] /\ oi[1].format = "mp4"
                                               /\ oi[2] = "macos"
    /\ compiled = None
    /\ previous = None
    /\ speed_in = 0
    /\ tempo = None
    /\ timeline = None
    /\ export_call = IdleCall
    /\ export_jobs = {}
    /\ events = <<>>
    /\ NoJobs
    /\ NoPending
    /\ sessions \in {map \in SessionMaps : WellKeyed(map)}
    /\ files = SegmentFiles(sessions)
    /\ clock = 0
    /\ recorder_call = RecorderCall("none", "", None, None)
    /\ stop_call = IdleStopCall
    /\ lock_poisoned \in BOOLEAN

stop_frame == <<project, options, target_os, compiled, previous, speed_in, tempo, timeline, export_call, export_jobs, job_vars, pending_call, clock, lock_poisoned>>

\* the command has been called with a project id
Called(command, argument) ==
    [stop_call EXCEPT
        !.pc = "called", !.command = command, !.argument = argument,
        !.project_id = normalize_project_id_input(argument),
        !.stop_result = None, !.capture = "none", !.finalization = "none",
        !.first_event = Len(events) + 1, !.result = None, !.calls = @ + 1]

\* the command returns
CommandReturned(call, result) == [call EXCEPT !.pc = "returned", !.result = result]

\* stop_screen_recording from do_stop_recording to the await of the
\* finalization, stopped being the return value of do_stop_recording
StopCapture(argument, project_id, stopped) ==
    /\ sessions' = RemoveEntry(sessions, project_id)
    /\ recorder_call' = RecorderCall("stop", project_id,
                            SessionOf(sessions, project_id), stopped)
    /\ IF ~stopped.ok
       THEN /\ pending_finalizations' =
                   IF lock_poisoned THEN pending_finalizations
                   ELSE RemoveEntry(pending_finalizations, project_id)
            /\ events' = events \o
                   <<StateChanged("stopping", project_id),
                     Finalizing("stopping-capture", project_id),
                     StopFailed(stopped.message, project_id),
                     StateChanged("idle", project_id)>>
            /\ stop_call' = CommandReturned([Called("stop", argument) EXCEPT
                                         !.capture = "failed"], stopped)
       ELSE IF lock_poisoned
       THEN /\ UNCHANGED pending_finalizations
            /\ events' = events \o
                   <<StateChanged("stopping", project_id),
                     Finalizing("stopping-capture", project_id),
                     StopFailed("Lock error", project_id),
                     StateChanged("idle", project_id)>>
            /\ stop_call' = CommandReturned([Called("stop", argument) EXCEPT
                                         !.capture = "ok"], Err("Lock error"))
       ELSE /\ pending_finalizations' =
                   InsertEntry(pending_finalizations, stopped.value)
            /\ events' = events \o
                   <<StateChanged("stopping", project_id),
                     Finalizing("stopping-capture", project_id),
                     Finalizing("concatenating-segments", project_id)>>
            /\ stop_call' = [Called("stop", argument) EXCEPT
                                !.pc = "concatenating", !.capture = "ok",
                                !.stop_result = Some(stopped.value)]

\* stop_screen_recording(project_id) up to its first await
StopScreenRecording(project_id, failure) ==
    /\ stop_call.pc \in {"idle", "returned"}
    /\ stop_call.calls < MaxStopCalls
    /\ IF normalize_project_id_input(project_id) = ""
       THEN /\ stop_call' = CommandReturned(Called("stop", project_id),
                                Err("Missing project id for stop recording"))
            /\ UNCHANGED <<sessions, recorder_call, pending_finalizations, events>>
       ELSE StopCapture(project_id, normalize_project_id_input(project_id),
                        StopResult(sessions, normalize_project_id_input(project_id), failure))
    /\ UNCHANGED <<files, stop_frame>>

\* the entry get_pending_finalization returns, None included
PendingEntry(map, project_id, existing) ==
    IF project_id \in DOMAIN map
       /\ has_required_finalization_artifacts(map[project_id], existing)
    THEN Some(map[project_id]) ELSE None

\* retry_recording_finalization with a project id that is not empty and a
\* lock that is not poisoned
RetryFinalization(argument, project_id, entry) ==
    /\ pending_finalizations' =
           IF IsSome(entry) THEN pending_finalizations
           ELSE RemoveEntry(pending_finalizations, project_id)
    /\ IF IsSome(entry)
       THEN /\ events' = events \o
                   <<RetryStatus("started", project_id),
                     StateChanged("stopping", project_id),
                     Finalizing("concatenating-segments", project_id)>>
            /\ stop_call' = [Called("retry", argument) EXCEPT
                                !.pc = "concatenating", !.stop_result = entry]
       ELSE /\ events' = events \o <<RetryStatus("failed", project_id)>>
            /\ stop_call' = CommandReturned(Called("retry", argument), Err(NoContext))

\* retry_recording_finalization(project_id) up to its first await
RetryRecordingFinalization(project_id) ==
    /\ stop_call.pc \in {"idle", "returned"}
    /\ stop_call.calls < MaxStopCalls
    /\ IF normalize_project_id_input(project_id) = ""
       THEN /\ stop_call' = CommandReturned(Called("retry", project_id),
                                Err("Missing project id for retry recording finalization"))
            /\ UNCHANGED <<pending_finalizations, events>>
       ELSE IF lock_poisoned
       THEN /\ stop_call' = CommandReturned(Called("retry", project_id),
                                Err("Lock error"))
            /\ UNCHANGED <<pending_finalizations, events>>
       ELSE RetryFinalization(project_id, normalize_project_id_input(project_id),
                PendingEntry(pending_finalizations,
                             normalize_project_id_input(project_id), files))
    /\ UNCHANGED <<files, sessions, recorder_call, stop_frame>>

ConcatOutcomes == {"ok", "write_manifest", "ffmpeg", "rename"}

\* the return value of concatenate_screen_segments
ConcatResult(stop_result, outcome) ==
    IF Len(stop_result.screen_segment_paths) <= 1 THEN OkUnit
    ELSE CASE outcome = "write_manifest" -> Err("Failed to write concat manifest")
           [] outcome = "ffmpeg" -> Err("ffmpeg failed with exit code: 1")
           [] outcome = "rename" -> Err("Failed to finalize merged recording")
           [] OTHER -> OkUnit

\* the files concatenate_screen_segments leaves: the manifest and the
\* merged file are gone again when it returns
ConcatFiles(stop_result, existing, outcome) ==
    IF Len(stop_result.screen_segment_paths) <= 1 THEN existing
    ELSE CASE outcome = "rename" -> existing \ {stop_result.screen_video_path}
           [] outcome = "ok" ->
                (existing \ {stop_result.screen_segment_paths[i] :
                                 i \in 1..Len(stop_result.screen_segment_paths)})
                    \cup {stop_result.screen_video_path}
           [] OTHER -> existing

\* the commands after a failed finalization, leaving the state at stopping
FailFinalization_StaysStopping(message, how) ==
    /\ events' = events \o
           (IF stop_call.command = "retry"
            THEN <<RetryStatus("failed", stop_call.project_id)>> ELSE <<>>)
           \o <<StopFailed(message, stop_call.project_id)>>
    /\ stop_call' = CommandReturned([stop_call EXCEPT
                                 !.finalization = how,
                                 !.unfinalized = @ \cup {stop_call.project_id}],
                             Err(message))
    /\ UNCHANGED pending_finalizations

\* the commands after a finalization that returned Err or ran out of time
FailFinalization(message, how) ==
    /\ events' = events \o
           (IF stop_call.command = "retry"
            THEN <<RetryStatus("failed", stop_call.project_id)>> ELSE <<>>)
           \o <<StopFailed(message, stop_call.project_id),
                StateChanged("idle", stop_call.project_id)>>
    /\ stop_call' = CommandReturned([stop_call EXCEPT
                                 !.finalization = how,
                                 !.unfinalized = @ \cup {stop_call.project_id}],
                             Err(message))
    /\ UNCHANGED pending_finalizations

\* finalize_stopped_recording from concatenate_screen_segments to the
\* await of save_project
ConcatenateScreenSegments(outcome) ==
    /\ stop_call.pc = "concatenating"
    /\ files' = ConcatFiles(Unwrap(stop_call.stop_result), files, outcome)
    /\ IF ConcatResult(Unwrap(stop_call.stop_result), outcome).ok
       THEN /\ events' = events \o
                   <<Finalizing("verifying-duration", stop_call.project_id),
                     Finalizing("verifying-dimensions", stop_call.project_id),
                     Finalizing("saving-project", stop_call.project_id)>>
            /\ stop_call' = [stop_call EXCEPT !.pc = "saving"]
            /\ UNCHANGED pending_finalizations
       ELSE FailFinalization(
                ConcatResult(Unwrap(stop_call.stop_result), outcome).message, "failed")
    /\ UNCHANGED <<sessions, recorder_call, stop_frame>>

\* save_project returns, and the command goes on to its sleep
SaveProject(saved) ==
    /\ stop_call.pc = "saving"
    /\ IF saved
       THEN /\ pending_finalizations' =
                   RemoveEntry(pending_finalizations, stop_call.project_id)
            /\ events' = events \o
                   <<Finalizing("refreshing-ui", stop_call.project_id)>>
                   \o (IF stop_call.command = "retry"
                       THEN <<RetryStatus("succeeded", stop_call.project_id)>>
                       ELSE <<>>)
                   \o <<StateChanged("idle", stop_call.project_id)>>
            /\ stop_call' = [stop_call EXCEPT
                                !.pc = "sleeping", !.finalization = "ok",
                                !.unfinalized = @ \ {stop_call.project_id}]
       ELSE FailFinalization("Failed to save project", "failed")
    /\ UNCHANGED <<files, sessions, recorder_call, stop_frame>>

\* tokio::time::timeout elapses while the finalization waits
FinalizationTimeout ==
    /\ stop_call.pc \in {"concatenating", "saving"}
    /\ FailFinalization(TimedOut, "timed-out")
    /\ UNCHANGED <<files, sessions, recorder_call, stop_frame>>

\* the sleep is over: recording-stopped, Ok(())
EmitRecordingStopped ==
    /\ stop_call.pc = "sleeping"
    /\ events' = events \o
           <<RecordingEvent("recording-stopped", stop_call.project_id, "")>>
    /\ stop_call' = CommandReturned(stop_call, OkUnit)
    /\ UNCHANGED <<files, sessions, recorder_call, pending_finalizations, stop_frame>>

NextStop ==
    \/ \E project_id \in RawProjectIds, failure \in StopFailures :
           StopScreenRecording(project_id, failure)
    \/ \E project_id \in RawProjectIds : RetryRecordingFinalization(project_id)
    \/ \E outcome \in ConcatOutcomes : ConcatenateScreenSegments(outcome)
    \/ \E saved \in BOOLEAN : SaveProject(saved)
    \/ FinalizationTimeout
    \/ EmitRecordingStopped

SpecStop == InitStop /\ [][NextStop]_vars


---------------------------------------------------------------------------
(* C31: the pending finalization entry of a stopped recording              *)

\* the last command was the given one, for a project id, and has returned
HasReturned(command) ==
    /\ stop_call.pc = "returned"
    /\ stop_call.command = command
    /\ stop_call.project_id # ""

\* the finalization of the last command returned Err or ran out of time
FinalizationFailed == stop_call.finalization \in {"failed", "timed-out"}

\* the map holds the StopRecordingResult of the last command under its id
EntryStored ==
    /\ stop_call.project_id \in DOMAIN pending_finalizations
    /\ IsSome(stop_call.stop_result)
    /\ pending_finalizations[stop_call.project_id] = Unwrap(stop_call.stop_result)

C31_RetryReached ==
    /\ HasReturned("retry")
    /\ stop_call.result.ok
    /\ stop_call.project_id \notin stop_call.unfinalized
    /\ stop_call.project_id \notin DOMAIN pending_finalizations


---------------------------------------------------------------------------
(* C32: a retry after a failed finalization                                *)

\* the last command was a retry that found no context to retry
RetryFoundNothing ==
    /\ HasReturned("retry")
    /\ stop_call.result = Err(NoContext)

\* C32: a retry_recording_finalization for a project id whose last
\* finalization failed or timed out does not return the error "No failed
\* finalization context is available for retry."; files are removed by
\* the finalization only.
C32_RetryFindsContext ==
    HasReturned("retry") /\ stop_call.project_id \in stop_call.unfinalized =>
        ~RetryFoundNothing

\* a stop whose finalization failed was followed at once by a retry for the
\* same project id, the screen video is on disk, and the retry found no
\* context
C32_Reached ==
    /\ RetryFoundNothing
    /\ stop_call.calls = 2
    /\ stop_call.project_id \in stop_call.unfinalized
    /\ ScreenVideoPath(stop_call.project_id) \in files
    /\ stop_call.project_id \notin DOMAIN pending_finalizations


---------------------------------------------------------------------------
(* C33: the events of stop_screen_recording                                *)

\* the events of the last command, oldest first
CallEvents == SubSeq(events, stop_call.first_event, Len(events))

\* the positions of an event among the events of the last command
PositionsOf(event) == {i \in 1..Len(CallEvents) : CallEvents[i] = event}

\* the positions of the events of a name among those of the last command
PositionsNamed(name) == {i \in 1..Len(CallEvents) : CallEvents[i].name = name}

\* stopping comes first; a command that has returned has emitted idle
\* after it; recording-stopped comes after idle and from a command that
\* returns Ok; recording-stop-failed comes from a command that returns Err
StopEventsInOrder ==
    /\ Len(CallEvents) > 0
    /\ CallEvents[1] = StateChanged("stopping", stop_call.project_id)
    /\ stop_call.pc = "returned" =>
           \E i \in PositionsOf(StateChanged("idle", stop_call.project_id)) : i > 1
    /\ \A s \in PositionsNamed("recording-stopped") :
           /\ stop_call.pc = "returned" /\ stop_call.result.ok
           /\ \E i \in PositionsOf(StateChanged("idle", stop_call.project_id)) : i < s
    /\ \A f \in PositionsNamed("recording-stop-failed") :
           stop_call.pc = "returned" /\ ~stop_call.result.ok

\* C33 as amended: a stop_screen_recording call whose project id is not
\* empty after trimming emits recording-state-changed "stopping" first
\* and, on every return path, recording-state-changed "idle" after it;
\* recording-stopped is emitted only by a call that returns Ok and only
\* after idle, recording-stop-failed only by a call that returns Err.
C33_StopEvents ==
    stop_call.command = "stop" /\ stop_call.project_id # "" => StopEventsInOrder

\* C33 as stated: the same for every call whose project id, as handed in,
\* is not the empty string.
C33_NonEmptyProjectId ==
    stop_call.command = "stop" /\ stop_call.argument # "" => StopEventsInOrder

\* a stop has returned Ok: stopping first, idle, then recording-stopped
C33_Reached ==
    /\ HasReturned("stop")
    /\ stop_call.result.ok
    /\ PositionsNamed("recording-stopped") = {Len(CallEvents)}
    /\ PositionsNamed("recording-stop-failed") = {}

\* a stop has returned Err because the entry could not be stored
C33_StoreFailedReached ==
    /\ HasReturned("stop")
    /\ stop_call.capture = "ok"
    /\ stop_call.finalization = "none"
    /\ ~stop_call.result.ok
    /\ PositionsNamed("recording-stop-failed") # {}


---------------------------------------------------------------------------
(* C34: the states of a recording session                                  *)

\* the state of the session of a project id changes in the step
StateChanges(project_id) ==
    /\ project_id \in DOMAIN sessions
    /\ project_id \in DOMAIN sessions'
    /\ sessions'[project_id].state # sessions[project_id].state

\* the step is a call of the function for the project id that returns Ok
\* and takes the session from one state to the other
Moves(op, project_id, from, to) ==
    /\ recorder_call'.op = op
    /\ recorder_call'.project_id = project_id
    /\ recorder_call'.result.ok
    /\ sessions[project_id].state = from
    /\ sessions'[project_id].state = to

\* the state in which a function accepts a session
AcceptedState(op) == IF op = "pause" THEN "Recording" ELSE "Paused"

\* the pause_recording or resume_recording call that has just returned
\* found no session or a session in the wrong state and returned Err, or
\* returned Err and left the state, or returned Ok
CallAnswered ==
    recorder_call.op \in {"pause", "resume"} =>
        /\ ~IsSome(recorder_call.before) => ~recorder_call.result.ok
        /\ IsSome(recorder_call.before) =>
               /\ Unwrap(recorder_call.before).state # AcceptedState(recorder_call.op)
                      => ~recorder_call.result.ok
               /\ ~recorder_call.result.ok =>
                      sessions[recorder_call.project_id].state
                          = Unwrap(recorder_call.before).state

\* C34: the state of a session changes only from Recording to Paused in a
\* pause_recording call that returns Ok and from Paused to Recording in a
\* resume_recording call that returns Ok; a call for an unknown project id
\* or for a session in the wrong state returns Err, and a call that
\* returns Err leaves the state of the session as it was.
C34_StateTransitions ==
    [][/\ \A project_id \in ProjectIds :
              StateChanges(project_id) =>
                  \/ Moves("pause", project_id, "Recording", "Paused")
                  \/ Moves("resume", project_id, "Paused", "Recording")
       /\ recorder_call' # recorder_call \/ sessions' # sessions => CallAnswered']_vars

\* a resume_recording call has taken a Paused session to Recording
C34_Reached ==
    /\ recorder_call.op = "resume"
    /\ recorder_call.result.ok
    /\ Unwrap(recorder_call.before).state = "Paused"
    /\ sessions[recorder_call.project_id].state = "Recording"

\* a pause_recording call for a Paused session was rejected
C34_RejectedReached ==
    /\ recorder_call.op = "pause"
    /\ IsSome(recorder_call.before)
    /\ Unwrap(recorder_call.before).state = "Paused"
    /\ ~recorder_call.result.ok
    /\ sessions[recorder_call.project_id].state = "Paused"


---------------------------------------------------------------------------
(* C35: the segments of a recording session                                *)

\* no path occurs twice in the list
Distinct(paths) ==
    \A i, j \in 1..Len(paths) : i # j => paths[i] # paths[j]

\* the list of segments agrees with the other fields of the session
SegmentsAgree(session) ==
    /\ Len(session.screen_segments) = session.segment_index + 1
    /\ session.screen_segments[1] = session.screen_video_path
    /\ session.screen_segments[Len(session.screen_segments)]
           = session.current_segment_path
    /\ Distinct(session.screen_segments)

\* C35: every session of the registry has segment_index + 1 entries in
\* screen_segments, the first being screen_video_path and the last
\* current_segment_path, and no entry twice, after whatever start, pause
\* and resume calls succeeded or failed.
C35_SegmentsMatchIndex ==
    \A project_id \in DOMAIN sessions : SegmentsAgree(sessions[project_id])

\* a resume_recording call for a Paused session has returned Err and the
\* session has one segment index more and no segment more than before
C35_Reached ==
    /\ recorder_call.op = "resume"
    /\ ~recorder_call.result.ok
    /\ IsSome(recorder_call.before)
    /\ Unwrap(recorder_call.before).state = "Paused"
    /\ SegmentsAgree(Unwrap(recorder_call.before))
    /\ sessions[recorder_call.project_id].segment_index
           = Unwrap(recorder_call.before).segment_index + 1
    /\ sessions[recorder_call.project_id].screen_segments
           = Unwrap(recorder_call.before).screen_segments


---------------------------------------------------------------------------
(* C36: a pause or resume that fails                                       *)

\* the last call was a pause_recording or resume_recording that found a
\* session and returned Err
FailedOnSession ==
    /\ recorder_call.op \in {"pause", "resume"}
    /\ IsSome(recorder_call.before)
    /\ ~recorder_call.result.ok

\* C36: after a pause_recording or resume_recording call that returned
\* Err the session is as it was before the call: state, stream, recording
\* output, segment_index, screen_segments, current_segment_path,
\* active_duration_ms and last_resume_instant.
C36_ErrLeavesSession ==
    FailedOnSession =>
        sessions[recorder_call.project_id] = Unwrap(recorder_call.before)

\* a pause_recording call has returned Err for a Recording session after
\* taking last_resume_instant out of it
C36_Reached ==
    /\ FailedOnSession
    /\ recorder_call.op = "pause"
    /\ Unwrap(recorder_call.before).state = "Recording"
    /\ IsSome(Unwrap(recorder_call.before).last_resume_instant)
    /\ sessions[recorder_call.project_id].state = "Recording"
    /\ ~IsSome(sessions[recorder_call.project_id].last_resume_instant)
    /\ sessions[recorder_call.project_id].active_duration_ms
           > Unwrap(recorder_call.before).active_duration_ms

=============================================================================
